---- MODULE Spec2Model ----
(***************************************************************************)
(* Iterative search workflow of search_core: generate_search_queries,      *)
(* synthesize_answer, evaluate_answer, the control loops                   *)
(* SearchWorkflow.answer_query and AsyncSearchWorkflow.handle_search_flow, *)
(* the router AsyncSearchWorkflow.process_query (workflows.py, utils.py)   *)
(* the search provider SearchScraper / AsyncSearchScraper (searchers.py), *)
(* the completion client GroqClient / AsyncGroqClient (groq.py) and the    *)
(* loop of the legacy script src/search.py.  The completion service and    *)
(* the web are the environment: every call draws its outcome from a finite *)
(* set of response shapes.                                                 *)
(***************************************************************************)
EXTENDS Integers, Sequences, FiniteSets, TLC

VARIABLES
    entry,              \* the operation the caller invoked
    pc,                 \* position of the control flow inside that operation
    settings,           \* Settings: max_retries, query_generation_attempts
    query,              \* the caller's query text
    max_retries_arg,    \* handle_search_flow's max_retries keyword (None when absent)
    fixed_count,        \* generate_search_queries' fixed_count keyword
    attempt,            \* loop variable of the engine's for loop
    gen_attempt,        \* loop variable of generate_search_queries' for loop
    search_queries,     \* engine local
    search_results,     \* engine local
    answer,             \* engine local
    previous_queries,   \* engine local
    previous_answer,    \* engine local
    answers_history,    \* engine local
    evaluation,         \* engine local
    result,             \* the value returned by the engine or by a direct searcher call
                        \* (None before)
    queries_returned,   \* the list returned by a direct generate_search_queries call
    calls,              \* observation: number of calls issued, per collaborator stage
    gen_calls,          \* observation: completion calls of the running generate call
    gen_log,            \* observation: the responses given to a direct generate or
                        \* evaluate call and to the classify_query call
    synth_log,          \* observation: every value synthesize_answer returned, in order
    last_verdict,       \* observation: the value evaluate_answer returned last
    workers,            \* the pool (or task list) of search_many: whether one was ever
                        \* created, and its search() calls, "running" or "done" each
    merged,             \* search_many local `results`
    fan_log,            \* observation: the outcome of every search() call of a direct
                        \* searcher call, in completion order
    query_type,         \* process_query local (None before classify_query returned)
    reply,              \* the dict process_query returned (None before)
    best_log,           \* observation: every evaluate_best_answer call, the answers
                        \* it was given and the response to its completion call
    progress_callback,  \* whether answer_query was given a progress_callback
    callback_log,       \* observation: the arguments of every progress_callback call
    exchange,           \* the HTTP exchange a direct chat_completion call meets
                        \* (None for the other entry points)
    session,            \* the HTTP session of the scraper (SearchScraper.session, or
                        \* the aiohttp session handed to AsyncSearchScraper): its
                        \* cookie jar, and which search() calls of the running
                        \* fan-out have sent and have stored cookies
    invocation          \* which call on the same workflow object is running

vars == << entry, pc, settings, query, max_retries_arg, fixed_count, attempt,
           gen_attempt, search_queries, search_results, answer, previous_queries, previous_answer,
           answers_history, evaluation, result, queries_returned, calls, gen_calls,
           gen_log, synth_log, last_verdict, workers, merged, fan_log, query_type,
           reply, best_log, progress_callback, callback_log, exchange, session,
           invocation >>

----------------------------------------------------------------------------
(* Bounds of the model *)

MaxRetries == 3
MaxGenAttempts == 2
MaxFixedCount == 2
MaxQueries == 2           \* queries handed to a direct search_many call
MaxHits == 2              \* result groups on one provider page
MaxResults == 2           \* Settings.search_results_per_query
MaxContentLength == 2     \* Settings.max_content_length

----------------------------------------------------------------------------
(* Python values.  Text is a sequence of one-character strings. *)

None == [t |-> "None"]
PyInt(n) == [t |-> "int", n |-> n]
PyStr(s) == [t |-> "str", s |-> s]
PyList(l) == [t |-> "list", l |-> l]
PyBool(b) == [t |-> "bool", b |-> b]

\* an exception leaving a call
Raised == [t |-> "raise"]

\* Python truth value of an object (what `if x`, `not x` and `x or y` test)
Truthy(x) ==
    CASE x.t = "None" -> FALSE
      [] x.t = "int" -> x.n # 0
      [] x.t = "str" -> x.s # << >>
      [] x.t = "list" -> x.l # << >>
      [] x.t = "bool" -> x.b
      [] x.t = "SearchResult" -> TRUE

Max(a, b) == IF a >= b THEN a ELSE b
Min(a, b) == IF a <= b THEN a ELSE b

IsSpace(c) == c = " "

RECURSIVE LStrip(_)
LStrip(s) == IF s # << >> /\ IsSpace(Head(s)) THEN LStrip(Tail(s)) ELSE s

RECURSIVE RStrip(_)
RStrip(s) ==
    IF s # << >> /\ IsSpace(s[Len(s)]) THEN RStrip(SubSeq(s, 1, Len(s) - 1)) ELSE s

\* str.strip()
Strip(s) == RStrip(LStrip(s))

\* str(item) of a decoded JSON array element
PyStrOf(item) ==
    CASE item.t = "str" -> item.s
      [] item.t = "None" -> << "N", "o", "n", "e" >>

----------------------------------------------------------------------------
(* Completion-client responses.  A call either raises GroqAPIError or      *)
(* returns a payload with "choices".  The content of a message is None or  *)
(* text; json is what json.loads makes of that text ("invalid" when it     *)
(* raises JSONDecodeError).                                                *)

Raise(exc) == [raises |-> exc, choices |-> << >>]
Payload(choices) == [raises |-> "none", choices |-> choices]
Choice(content) == [has_message |-> TRUE, message |-> [t |-> "dict", content |-> content]]
ChoiceWithoutMessage == [has_message |-> FALSE, message |-> None]
ChoiceNullMessage == [has_message |-> TRUE, message |-> None]
Text(s, json) == [t |-> "str", s |-> s, json |-> json]

Invalid == [t |-> "invalid"]
JsonList(items) == [t |-> "list", l |-> items]
JsonDict(sat, reason) == [t |-> "dict", satisfactory |-> sat, reason |-> reason]
JsonNumber(n) == [t |-> "int", n |-> n]

\* utils.extract_choice_text
extract_choice_text(response) ==
    IF response.choices = << >> THEN None
    ELSE IF ~response.choices[1].has_message THEN None          \* KeyError caught
    ELSE IF response.choices[1].message.t # "dict" THEN None    \* AttributeError caught
    ELSE response.choices[1].message.content

\* utils.safe_json_loads
safe_json_loads(value) == IF value.json.t = "invalid" THEN None ELSE value.json

CleanQueriesKeepBlank(items) ==
    [i \in 1..Len(items) |-> Strip(PyStrOf(items[i]))]

\* [str(item).strip() for item in parsed if str(item).strip()]
RECURSIVE CleanQueries(_)
CleanQueries(items) ==
    IF items = << >> THEN << >>
    ELSE IF Strip(PyStrOf(Head(items))) # << >>
         THEN << Strip(PyStrOf(Head(items))) >> \o CleanQueries(Tail(items))
         ELSE CleanQueries(Tail(items))

GenAttemptsOneMore(s) == Max(1, s.query_generation_attempts) + 1

\* max(1, self.settings.query_generation_attempts)
GenAttempts(s) == Max(1, s.query_generation_attempts)

ReturnAndGoOn(queries) == [kind |-> "continue", queries |-> queries, exc |-> "none"]

Continue == [kind |-> "continue", queries |-> << >>, exc |-> "none"]
Return(queries) == [kind |-> "return", queries |-> queries, exc |-> "none"]
Propagate(exc) == [kind |-> "raise", queries |-> << >>, exc |-> exc]

ValidateQueriesAnyCount(queries, fc) ==
    IF queries = << >> THEN Continue
    ELSE IF Len(queries) > 5 THEN Return(SubSeq(queries, 1, 5))
    ELSE Return(queries)

\* the validation of a decoded list: the body of `if isinstance(parsed, list):`
ValidateQueries(queries, fc) ==
    IF queries = << >> THEN Continue
    ELSE IF Truthy(fc) /\ Len(queries) # fc.n THEN Continue
    ELSE IF ~Truthy(fc) /\ Len(queries) > 5 THEN Return(SubSeq(queries, 1, 5))
    ELSE Return(queries)

GenerateCallUncaught(response) ==
    IF response.raises # "none" THEN "propagates" ELSE "returned"

\* the try/except around the completion call of generate_search_queries
GenerateCallOutcome(response) ==
    IF response.raises = "GroqAPIError" THEN "caught"
    ELSE IF response.raises # "none" THEN "propagates"
    ELSE "returned"

\* one iteration of generate_search_queries' for loop on one completion response
GenerateIteration(response, fc) ==
    IF GenerateCallOutcome(response) = "caught" THEN Continue
    ELSE IF GenerateCallOutcome(response) = "propagates" THEN Propagate(response.raises)
    ELSE LET content == extract_choice_text(response) IN
         IF ~Truthy(content) THEN Continue
         ELSE LET parsed == safe_json_loads(content) IN
              IF parsed.t = "list"
              THEN ValidateQueries(CleanQueries(parsed.l), fc)
              ELSE Continue

FallbackStripped(q) == << Strip(q) >>

\* `return [query]` after the loop
Fallback(q) == << q >>

----------------------------------------------------------------------------
(* synthesize_answer and evaluate_answer on one completion response *)

\* the body of synthesize_answer: Optional[str]
synthesize_answer(response) ==
    IF response.raises = "GroqAPIError" THEN None
    ELSE LET content == extract_choice_text(response) IN
         IF Truthy(content) THEN PyStr(Strip(content.s)) ELSE None

EvaluationResult(satisfactory, reason) == [satisfactory |-> satisfactory, reason |-> reason]

NoReason == << >>

UnableToEvaluate == << "Unable to evaluate the answer" >>
UnableToEvaluateExc == << "Unable to evaluate the answer", ": ", "GroqAPIError" >>
UnableToProduce == << "Unable to produce an answer from the gathered search results." >>

\* str(data.get("reason") or "")
ReasonOf(data) == IF Truthy(data.reason) THEN data.reason.s ELSE << >>

\* the body of evaluate_answer
evaluate_answer(response) ==
    IF response.raises = "GroqAPIError" THEN EvaluationResult(FALSE, UnableToEvaluateExc)
    ELSE LET content == extract_choice_text(response)
             data == IF Truthy(content) THEN safe_json_loads(content) ELSE None
         IN  IF data.t = "dict"
             THEN EvaluationResult(Truthy(data.satisfactory), ReasonOf(data))
             ELSE EvaluationResult(FALSE, UnableToEvaluate)

----------------------------------------------------------------------------
(* The results the engine returns *)

Engines == {"answer_query", "handle_search_flow"}

\* the entry points that run the loop: process_query calls handle_search_flow
Flows == Engines \cup {"process_query"}

\* direct calls of the searcher
FanEntries == {"fetch_search_results", "search_many", "async_search_many"}
SearchEntries == {"search", "async_search"}

\* direct calls of SearchWorkflow.evaluate_answer and
\* AsyncSearchWorkflow.evaluate_answer
EvalEntries == {"evaluate_answer", "async_evaluate_answer"}

\* answer_query: self.settings.max_retries;
\* handle_search_flow: limit = max_retries or self.settings.max_retries
Limit(e, arg, s) ==
    IF e \in {"handle_search_flow", "process_query"} /\ Truthy(arg) THEN arg.n
    ELSE s.max_retries

WorkflowResult(ans, ev, attempts, history) ==
    [answer |-> ans, evaluation |-> ev, attempts |-> attempts,
     answers_history |-> history]

SatisfactoryResultZeroBased(ans, ev, att, history) ==
    WorkflowResult(ans, ev, att - 1, history)

\* the return inside `if evaluation.satisfactory:`
SatisfactoryResult(ans, ev, att, history) == WorkflowResult(ans, ev, att, history)

FinalResultFirstAnswer(history, ev, lim) ==
    WorkflowResult(IF history # << >> THEN history[1] ELSE << >>, ev, lim, history)

\* the return after the loop (reached by exhaustion and by `break`)
FinalResult(history, ev, lim) ==
    WorkflowResult(IF history # << >> THEN history[Len(history)] ELSE << >>,
                   ev, lim, history)

SynthesisFailedSatisfactory == EvaluationResult(TRUE, UnableToProduce)

\* the evaluation set before `break` when synthesis gave no answer
SynthesisFailed == EvaluationResult(FALSE, UnableToProduce)

LoopHasOneMore(n, lim) == n <= lim + 1

\* `for attempt in range(1, limit + 1)`: does the loop run an iteration numbered n
LoopHas(n, lim) == n <= lim

----------------------------------------------------------------------------
(* The handlers of AsyncSearchWorkflow.process_query *)

LowerChar(c) ==
    CASE c = "M" -> "m"
      [] c = "A" -> "a"
      [] c = "T" -> "t"
      [] c = "H" -> "h"
      [] OTHER -> c

\* str.lower()
Lower(s) == [i \in 1..Len(s) |-> LowerChar(s[i])]

Simple == << "s", "i", "m", "p", "l", "e" >>
Math == << "m", "a", "t", "h" >>
Realtime == << "r", "e", "a", "l", "t", "i", "m", "e" >>

classify_queryFavorRealtime(response) ==
    IF response.raises = "GroqAPIError" THEN Realtime
    ELSE LET content == extract_choice_text(response) IN
         IF ~Truthy(content) THEN Realtime ELSE Lower(Strip(content.s))

\* the body of classify_query
classify_query(response) ==
    IF response.raises = "GroqAPIError" THEN Simple
    ELSE LET content == extract_choice_text(response) IN
         IF ~Truthy(content) THEN Simple ELSE Lower(Strip(content.s))

RouteMathAsSearch(label) ==
    IF label = Simple THEN "simple" ELSE "search"

\* the route process_query takes for a label
Route(label) ==
    IF label = Math THEN "math"
    ELSE IF label = Simple THEN "simple"
    ELSE "search"

\* handle_simple_query awaits chat_completion outside any try
SimpleCallOutcome(response) ==
    IF response.raises # "none" THEN "propagates" ELSE "returned"

\* the rest of the body of handle_simple_query
handle_simple_query(response) ==
    LET content == extract_choice_text(response) IN
    IF Truthy(content) THEN Strip(content.s) ELSE << >>

UnableToGenerateMath == << "Unable to generate math solution", ": ", "GroqAPIError" >>
UnableToRetrieveMath == << "Unable to retrieve the math solution." >>
ErrorExecuting == << "Error while executing generated code", ": ", "Exception" >>

\* the body of handle_math_query; `executed` is what _execute_generated_code
\* does with the code: it raises or returns text
handle_math_query(response, executed) ==
    IF response.raises = "GroqAPIError" THEN UnableToGenerateMath
    ELSE LET content == extract_choice_text(response) IN
         IF ~Truthy(content) THEN UnableToRetrieveMath
         ELSE IF executed = Raised THEN ErrorExecuting
         ELSE executed.s

\* the body of evaluate_best_answer: Optional[str]
evaluate_best_answer(response) ==
    IF response.raises = "GroqAPIError" THEN None
    ELSE LET content == extract_choice_text(response) IN
         IF Truthy(content) THEN PyStr(Strip(content.s)) ELSE None

NeedsBestAnswerAnyVerdict(r) == r.answers_history # << >>

\* `if not workflow_result.evaluation.satisfactory and workflow_result.answers_history`
NeedsBestAnswer(r) == ~r.evaluation.satisfactory /\ r.answers_history # << >>

\* the `answers` argument of the evaluate_best_answer call of process_query
BestAnswerArgs(r) == r.answers_history

\* the dict process_query returns
Reply(response, type) == [response |-> response, type |-> type]

----------------------------------------------------------------------------
(* The search provider (searchers.py).  One search() call sends a request, *)
(* reads the groups of the result page, starts one _process_result task    *)
(* per group with a link and gathers their results as they complete.       *)
(* search_many() runs one search() call per query and merges the batches   *)
(* as the calls complete.                                                  *)

Ellipsis == << ".", ".", "." >>

truncate_textNoEllipsis(text, max_length) ==
    IF text = None THEN None
    ELSE PyStr(SubSeq(text.s, 1, Min(Len(text.s), max_length)))

\* utils.truncate_text
truncate_text(text, max_length) ==
    IF text = None THEN None
    ELSE IF Len(text.s) <= max_length THEN text
    ELSE PyStr(SubSeq(text.s, 1, max_length) \o Ellipsis)

\* types.SearchResult
SearchResult(title, link, description, content) ==
    [t |-> "SearchResult", title |-> title, link |-> link,
     description |-> description, content |-> content]

NothingUsefulNever(description_text, content) == FALSE

\* `if not any([description_text, content])`
NothingUseful(description_text, content) ==
    ~(Truthy(description_text) \/ Truthy(content))

\* a group of the result page: its link (None without an anchor or href), its
\* title, its description text, and what _extract_content(link) gives when
\* it is called: None, text, or an exception other than a request error
Group(link, description_text, fetched) ==
    [link |-> link, title |-> link, description_text |-> description_text,
     fetched |-> fetched]

\* _process_result / _process_result_async on one group
process_result(g, s) ==
    IF g.fetched = Raised THEN Raised
    ELSE IF NothingUseful(g.description_text, g.fetched) THEN None
    ELSE SearchResult(g.title, g.link,
                      truncate_text(g.description_text, s.max_content_length),
                      truncate_text(g.fetched, s.max_content_length))

\* the scraper behind each entry point
Async(e) ==
    e \in {"handle_search_flow", "process_query", "async_search_many", "async_search"}

\* the groups that pass `if not anchors: continue` and `if not link: continue`
RECURSIVE Linked(_)
Linked(groups) ==
    IF groups = << >> THEN << >>
    ELSE IF Truthy(Head(groups).link) THEN << Head(groups) >> \o Linked(Tail(groups))
    ELSE Linked(Tail(groups))

\* the groups search() starts a task for.  SearchScraper tests
\* len(results) >= max_results while results is still empty;
\* AsyncSearchScraper tests len(tasks) >= max_results.
Tasks(e, groups, max_results) ==
    IF Async(e)
    THEN SubSeq(Linked(groups), 1, Min(Len(Linked(groups)), Max(0, max_results)))
    ELSE IF 0 >= max_results THEN << >> ELSE Linked(groups)

Returns(batch) == [raised |-> FALSE, batch |-> batch]
Raises == [raised |-> TRUE, batch |-> << >>]

\* the as_completed loop of search() over the task outcomes in completion
\* order: SearchScraper skips a task that raised, AsyncSearchScraper awaits
\* it outside any try
RECURSIVE Gather(_, _, _, _)
Gather(e, outcomes, results, max_results) ==
    IF outcomes = << >> THEN Returns(results)
    ELSE IF Head(outcomes) = Raised
    THEN (IF Async(e) THEN Raises
          ELSE Gather(e, Tail(outcomes), results, max_results))
    ELSE LET rs == IF Truthy(Head(outcomes)) THEN Append(results, Head(outcomes))
                   ELSE results
         IN  IF Len(rs) >= max_results THEN Returns(rs)
             ELSE Gather(e, Tail(outcomes), rs, max_results)

\* what the provider does with the request of one search() call
RequestFailed == [kind |-> "request_failed", groups |-> << >>]
Broken == [kind |-> "broken", groups |-> << >>]
Page(groups) == [kind |-> "page", groups |-> groups]

\* the orders in which n tasks can complete
Perms(n) == { o \in [1..n -> 1..n] : \A i, j \in 1..n : i # j => o[i] # o[j] }

\* SearchScraper.search / AsyncSearchScraper.search: a failed request gives
\* [], a page that cannot be read raises, a page is processed group by group
search(e, response, order, s) ==
    CASE response.kind = "request_failed" -> Returns(<< >>)
      [] response.kind = "broken" -> Raises
      [] response.kind = "page" ->
           LET tasks == Tasks(e, response.groups, s.search_results_per_query) IN
           Gather(e, [i \in 1..Len(tasks) |-> process_result(tasks[order[i]], s)],
                  << >>, s.search_results_per_query)

\* the content fetches one search() call issues: _process_result calls
\* _extract_content once for every task that was started, and the executor
\* (or the event loop) runs every task it was given
ContentFetches(e, response, s) ==
    IF response.kind = "page"
    THEN Len(Tasks(e, response.groups, s.search_results_per_query))
    ELSE 0

\* the completion orders of the tasks search() starts for a response
TaskOrders(e, response, s) ==
    Perms(Len(Tasks(e, response.groups, s.search_results_per_query)))

NoQueriesNever(queries) == FALSE

\* `if not queries: return []` of search_many and of fetch_search_results
NoQueries(queries) == queries = << >>

BatchUncaught(out) == IF out.raised THEN "propagates" ELSE "extend"

\* the try/except Exception around future.result() / await task in search_many
BatchOutcome(out) == IF out.raised THEN "continue" ELSE "extend"

RECURSIVE ExtendWithNew(_, _)
ExtendWithNew(results, batch) ==
    IF batch = << >> THEN results
    ELSE IF \E k \in 1..Len(results) : results[k] = Head(batch)
    THEN ExtendWithNew(results, Tail(batch))
    ELSE ExtendWithNew(Append(results, Head(batch)), Tail(batch))

\* results.extend(batch)
Extend(results, batch) == results \o batch

AnyDone(ws) == \E i \in 1..Len(ws) : ws[i] = "done"

\* as_completed(...) is exhausted: every call of the fan-out has completed
AllDone(ws) == \A i \in 1..Len(ws) : ws[i] = "done"

----------------------------------------------------------------------------
(* What the environment may answer *)

Queries == { << "q" >>, << " ", "q" >> }

Sx == PyStr(<< "x" >>)
Sy == PyStr(<< "y" >>)
SomeText == << "j" >>

PaddedList == << PyStr(<< " ", "x", " " >>), PyStr(<< >>), Sy >>

GenLists ==
    { PaddedList,                                     \* padded and empty items
      << Sy >>,                                       \* one query
      << PyStr(<< >>), PyStr(<< " " >>) >>,            \* only empty items
      << Sx, Sx, Sx, Sx, Sx, Sx >>,                   \* more than five
      << None, Sx >>,                                 \* a null item
      << Sy, Sx, Sy >> }                              \* three, one repeated

\* every shape of response generate_search_queries tells apart
GenResponses ==
    { Raise("GroqAPIError"),
      Payload(<< >>),
      Payload(<< ChoiceWithoutMessage >>),
      Payload(<< ChoiceNullMessage >>),
      Payload(<< Choice(None) >>),
      Payload(<< Choice(Text(<< >>, Invalid)) >>),
      Payload(<< Choice(Text(SomeText, Invalid)) >>),
      Payload(<< Choice(Text(SomeText, JsonDict(None, None))) >>),
      Payload(<< Choice(Text(SomeText, JsonNumber(7))) >>) }
    \cup { Payload(<< Choice(Text(SomeText, JsonList(l))) >>) : l \in GenLists }

\* the responses to the generation calls issued by the engine's loop
LoopGenResponses ==
    { Raise("GroqAPIError"),
      Payload(<< Choice(Text(SomeText, Invalid)) >>),
      Payload(<< Choice(Text(SomeText, JsonList(PaddedList))) >>) }

SynthResponses ==
    { Raise("GroqAPIError"),
      Payload(<< >>),
      Payload(<< Choice(None) >>),
      Payload(<< Choice(Text(<< >>, Invalid)) >>),
      Payload(<< Choice(Text(<< " " >>, Invalid)) >>),
      Payload(<< Choice(Text(<< "a" >>, Invalid)) >>),
      Payload(<< Choice(Text(<< " ", "b", " " >>, Invalid)) >>) }

Reasons == { None, PyStr(<< "r" >>) }

Verdicts ==
    { PyBool(TRUE), PyBool(FALSE), None, PyStr(<< "f", "a", "l", "s", "e" >>),
      PyInt(0), PyInt(1) }

\* the responses to the completion call of classify_query
ClassifyResponses ==
    { Raise("GroqAPIError"),
      Payload(<< >>),
      Payload(<< Choice(None) >>),
      Payload(<< Choice(Text(Math, Invalid)) >>),
      Payload(<< Choice(Text(<< " ", "M", "A", "T", "H", " " >>, Invalid)) >>),
      Payload(<< Choice(Text(Simple, Invalid)) >>),
      Payload(<< Choice(Text(Realtime, Invalid)) >>),
      Payload(<< Choice(Text(<< "x" >>, Invalid)) >>),
      Payload(<< Choice(Text(<< " " >>, Invalid)) >>),
      Payload(<< Choice(Text(<< >>, Invalid)) >>) }

\* the responses to the completion call of handle_simple_query
SimpleResponses ==
    { Raise("GroqAPIError"),
      Payload(<< >>),
      Payload(<< Choice(None) >>),
      Payload(<< Choice(Text(<< " ", "a", " " >>, Invalid)) >>) }

\* the responses to the completion call of handle_math_query, and what
\* running the generated code does
MathResponses ==
    { Raise("GroqAPIError"),
      Payload(<< Choice(None) >>),
      Payload(<< Choice(Text(<< >>, Invalid)) >>),
      Payload(<< Choice(Text(<< "c" >>, Invalid)) >>) }

Executions == { Raised, PyStr(<< "4" >>) }

\* the responses to the completion call of evaluate_best_answer
BestResponses ==
    { Raise("GroqAPIError"),
      Payload(<< Choice(None) >>),
      Payload(<< Choice(Text(<< " " >>, Invalid)) >>),
      Payload(<< Choice(Text(<< "a" >>, Invalid)) >>),
      Payload(<< Choice(Text(<< "z" >>, Invalid)) >>) }

\* the answers handed to a direct evaluate_answer call
Answers == { PyStr(<< "a" >>), PyStr(<< "b" >>), PyStr(<< "a", " ", "b" >>) }

\* every shape of response evaluate_answer tells apart
EvalResponses ==
    { Raise("GroqAPIError"),
      Payload(<< >>),
      Payload(<< Choice(None) >>),
      Payload(<< Choice(Text(SomeText, Invalid)) >>),
      Payload(<< Choice(Text(SomeText, JsonList(<< >>))) >>) }
    \cup { Payload(<< Choice(Text(SomeText, JsonDict(v, r))) >>) :
             v \in Verdicts, r \in Reasons }

\* text of n characters
T(n) == [i \in 1..n |-> "a"]

\* the groups a result page is made of: with and without a link, with and
\* without description and page text, texts up to one character longer than
\* the longest max_content_length
Groups ==
    { Group(None, PyStr(T(1)), PyStr(T(1))),
      Group(PyStr(<< "1" >>), None, None),
      Group(PyStr(<< "2" >>), PyStr(<< >>), None),
      Group(PyStr(<< "3" >>), None, PyStr(<< >>)),
      Group(PyStr(<< "4" >>), PyStr(T(MaxContentLength + 1)), None),
      Group(PyStr(<< "5" >>), None, PyStr(T(MaxContentLength))),
      Group(PyStr(<< "6" >>), PyStr(T(MaxContentLength)), PyStr(T(MaxContentLength + 1))),
      Group(PyStr(<< "7" >>), PyStr(T(1)), PyStr(<< >>)),
      Group(PyStr(<< "8" >>), PyStr(T(1)), Raised) }

Pages == UNION { [1..n -> Groups] : n \in 0..MaxHits }

\* every outcome of the request of a direct search() call
SearchResponses == { RequestFailed, Broken } \cup { Page(p) : p \in Pages }

GoodGroup == Group(PyStr(<< "g" >>), PyStr(T(1)), PyStr(T(1)))
OtherGroup == Group(PyStr(<< "h" >>), None, PyStr(T(1)))

\* the outcomes of the requests of the calls a direct search_many() runs
FanResponses ==
    { RequestFailed, Broken, Page(<< >>), Page(<< GoodGroup >>),
      Page(<< GoodGroup, OtherGroup >>),
      Page(<< Group(PyStr(<< "8" >>), PyStr(T(1)), Raised) >>) }

\* the outcomes of the requests of the search calls of the engine's loop
LoopSearchResponses == { Broken, Page(<< GoodGroup >>) }

\* the query lists handed to a direct search_many / fetch_search_results call
FanQueries == UNION { [1..n -> { << "x" >>, << "y" >> }] : n \in 0..MaxQueries }

\* the responses to the evaluation calls issued by the engine's loop
LoopEvalResponses ==
    { Raise("GroqAPIError"),
      Payload(<< Choice(Text(SomeText, JsonDict(PyBool(TRUE), PyStr(<< "r" >>)))) >>),
      Payload(<< Choice(Text(SomeText, JsonDict(PyBool(FALSE), PyStr(<< "r" >>)))) >>) }

----------------------------------------------------------------------------
(* The completion client (groq.py).  One chat_completion call posts the    *)
(* request and meets one HTTP exchange: the request fails in the network,  *)
(* or a response arrives with a status, a content type and a body.  The    *)
(* body is what a JSON decoder makes of it ("invalid" when it cannot be    *)
(* decoded).                                                               *)

\* direct calls of GroqClient.chat_completion and
\* AsyncGroqClient.chat_completion
ClientEntries == {"chat_completion", "async_chat_completion"}

NetworkFailure ==
    [network |-> "fails", status |-> 0, json_content_type |-> FALSE, body |-> Invalid]

HttpResponse(status, json_content_type, body) ==
    [network |-> "ok", status |-> status, json_content_type |-> json_content_type,
     body |-> body]

JsonObject(keys) == [t |-> "dict", keys |-> keys]
JsonNull == None

\* what a chat_completion call does: it raises, or returns `data`
Fails(exc) == [raises |-> exc, data |-> None]
Data(data) == [raises |-> "none", data |-> data]

\* `"choices" in data` for the containers
Contains(data) ==
    CASE data.t = "dict" -> "choices" \in data.keys
      [] data.t = "list" ->
            \E i \in 1..Len(data.l) :
                data.l[i].t = "str" /\ data.l[i].s = << "c", "h", "o", "i", "c", "e", "s" >>

\* `if "choices" not in data: raise GroqAPIError(...)`, then `return data`;
\* the `in` test of a number or of None raises TypeError
CheckChoices(data) ==
    IF data.t \in {"int", "None"} THEN Fails("TypeError")
    ELSE IF ~Contains(data) THEN Fails("GroqAPIError")
    ELSE Data(data)

\* GroqClient.chat_completion: requests' response.json() decodes the body
\* whatever the content type and raises a ValueError when it cannot
chat_completion(x) ==
    IF x.network = "fails" THEN Fails("GroqAPIError")
    ELSE IF x.status >= 400 THEN Fails("GroqAPIError")
    ELSE IF x.body = Invalid THEN Fails("GroqAPIError")
    ELSE CheckChoices(x.body)

\* AsyncGroqClient.chat_completion: aiohttp's response.json() raises
\* ContentTypeError for a content type that is not JSON, and otherwise hands
\* the body to json.loads, whose JSONDecodeError is no aiohttp.ClientError
async_chat_completion(x) ==
    IF x.network = "fails" THEN Fails("GroqAPIError")
    ELSE IF ~x.json_content_type THEN Fails("GroqAPIError")
    ELSE IF x.body = Invalid THEN Fails("JSONDecodeError")
    ELSE IF x.status >= 400 THEN Fails("GroqAPIError")
    ELSE CheckChoices(x.body)

StatusCodes == {200, 201, 302, 404, 500}

Bodies ==
    { Invalid,
      JsonObject({"id", "choices"}),
      JsonObject({"error"}),
      JsonList(<< >>),
      JsonNumber(5),
      JsonNull }

\* the exchanges a chat_completion call can meet
Exchanges ==
    { NetworkFailure } \cup
    { HttpResponse(status, ct, body) :
          status \in StatusCodes, ct \in BOOLEAN, body \in Bodies }

----------------------------------------------------------------------------
(* The legacy script src/search.py: main() reads a query and runs its own  *)
(* copy of the loop on it, with its own generate_search_queries and        *)
(* evaluate_answer.  Its completion client returns response.json() as it   *)
(* is.                                                                     *)

\* the inner `while True:` of main(), from one query read to its break
LegacyEntries == {"legacy_main"}

\* generate_search_queries(..., max_retries=3, ...): main() passes none
LegacyGenRetries == 3

\* one iteration of the for loop of the legacy generate_search_queries,
\* called with fixed_count=None; json.loads(None) raises TypeError, which
\* `except json.JSONDecodeError` does not catch
legacy_generate_iteration(response) ==
    IF response.choices = << >> THEN Continue
    ELSE LET content == response.choices[1].message.content IN
         IF content = None THEN Propagate("TypeError")
         ELSE IF content.json.t = "list" /\ 2 <= Len(content.json.l)
                                         /\ Len(content.json.l) <= 5
              THEN Return(content.json.l)
              ELSE Continue

\* the legacy evaluate_answer: the decoded content, or the default verdict
legacy_evaluate_answer(response) ==
    IF response.choices = << >> THEN EvaluationResult(FALSE, UnableToEvaluate)
    ELSE LET content == response.choices[1].message.content IN
         IF content.json.t = "dict"
         THEN EvaluationResult(Truthy(content.json.satisfactory),
                               content.json.reason.s)
         ELSE EvaluationResult(FALSE, UnableToEvaluate)

\* the responses to the completion calls of the legacy script
LegacyGenResponses ==
    { Payload(<< >>),
      Payload(<< Choice(None) >>),
      Payload(<< Choice(Text(SomeText, Invalid)) >>),
      Payload(<< Choice(Text(SomeText, JsonList(<< Sy >>))) >>),
      Payload(<< Choice(Text(SomeText, JsonList(<< Sx, Sy >>))) >>),
      Payload(<< Choice(Text(SomeText, JsonList(<< Sy, Sx, Sy >>))) >>) }

LegacySynthResponses ==
    { Payload(<< >>),
      Payload(<< Choice(Text(<< "a" >>, Invalid)) >>),
      Payload(<< Choice(Text(<< "b" >>, Invalid)) >>) }

LegacyEvalResponses ==
    { Payload(<< >>),
      Payload(<< Choice(Text(SomeText, Invalid)) >>),
      Payload(<< Choice(Text(SomeText, JsonDict(PyBool(TRUE), PyStr(<< "r" >>)))) >>),
      Payload(<< Choice(Text(SomeText, JsonDict(PyBool(FALSE), PyStr(<< "r" >>)))) >>) }

\* what the searches of one iteration put in all_results
LegacyResults == { << >>, << "r" >>, << "r", "r" >> }

\* the entry points whose calls do not read the Settings the model varies
DirectEntries ==
    FanEntries \cup SearchEntries \cup EvalEntries \cup ClientEntries \cup LegacyEntries

----------------------------------------------------------------------------
(* State machine *)

\* self.session = requests.Session(): no cookie stored yet.  jar is the call
\* whose response set the stored cookie (0: none); readers and writers are
\* the search() calls of the running fan-out that have sent the jar's
\* cookies with a request and that have stored a cookie in the jar
NewSession == [jar |-> 0, readers |-> {}, writers |-> {}]

\* session.get(...) issued by search() call i: the request carries the
\* cookies of the jar, and a cookie the response sets is stored in the jar
SessionGet(ses, i, set_cookie) ==
    [jar |-> IF set_cookie THEN i ELSE ses.jar,
     readers |-> ses.readers \cup {i},
     writers |-> IF set_cookie THEN ses.writers \cup {i} ELSE ses.writers]

\* whether the response to a search request sets a cookie (the responses
\* to the search calls of the engine's loop set none)
SetCookies(e) == IF e \in Flows THEN {FALSE} ELSE BOOLEAN

NoCalls == [generate |-> 0, search |-> 0, synthesize |-> 0, evaluate |-> 0,
            completion |-> 0, request |-> 0]

Count(c, stage) == [c EXCEPT ![stage] = @ + 1]

limit == Limit(entry, max_retries_arg, settings)

Start(entries) ==
    /\ entry \in entries
    /\ pc = "start"
    /\ settings \in
         [max_retries :
              IF entry \in DirectEntries THEN {MaxRetries} ELSE 0..MaxRetries,
          query_generation_attempts :
              IF entry \in DirectEntries \cup {"process_query"}
              THEN {MaxGenAttempts} ELSE 0..MaxGenAttempts,
          search_results_per_query :
              IF entry \in SearchEntries THEN 0..MaxResults ELSE {MaxResults},
          max_content_length :
              IF entry \in SearchEntries THEN 0..MaxContentLength
              ELSE {MaxContentLength}]
    /\ query \in IF entry \in {"generate_search_queries"} \cup EvalEntries
                 THEN Queries ELSE { << "q" >> }
    /\ max_retries_arg \in
         CASE entry = "handle_search_flow" ->
                 {None} \cup { PyInt(n) : n \in 0..MaxRetries }
           [] entry = "process_query" -> {None, PyInt(MaxRetries - 1)}
           [] OTHER -> {None}
    /\ fixed_count \in
         IF entry = "generate_search_queries"
         THEN {None} \cup { PyInt(n) : n \in 0..MaxFixedCount }
                     \cup { PyInt(Len(l)) : l \in GenLists }
         ELSE {None}
    /\ attempt = 0
    /\ gen_attempt = 0
    /\ search_queries \in IF entry \in FanEntries THEN FanQueries ELSE { << >> }
    /\ search_results = << >>
    /\ answer \in IF entry \in EvalEntries THEN Answers ELSE {None}
    /\ previous_queries = None
    /\ previous_answer = None
    /\ answers_history = << >>
    /\ evaluation = EvaluationResult(FALSE, << >>)
    /\ result = None
    /\ queries_returned = None
    /\ calls = NoCalls
    /\ gen_calls = 0
    /\ gen_log = << >>
    /\ synth_log = << >>
    /\ last_verdict = None
    /\ workers = [created |-> FALSE, calls |-> << >>]
    /\ merged = << >>
    /\ fan_log = << >>
    /\ query_type = None
    /\ reply = None
    /\ best_log = << >>
    /\ callback_log = << >>
    /\ exchange \in IF entry \in ClientEntries THEN Exchanges ELSE {None}
    /\ session = NewSession
    /\ invocation = 1

\* where the control goes when the loop returns its WorkflowResult: to the
\* caller, or back into process_query
FlowEnd == IF entry = "process_query" THEN "selecting" ELSE "done"

\* after the last statement of the loop body: the next iteration, or the
\* return that follows the loop
NextAttempt(history, ev, issued) ==
    IF LoopHas(attempt + 1, limit)
    THEN /\ attempt' = attempt + 1
         /\ gen_attempt' = 0
         /\ gen_calls' = 0
         /\ calls' = Count(issued, "generate")
         /\ pc' = "generating"
         /\ UNCHANGED result
    ELSE /\ result' = FinalResult(history, ev, limit)
         /\ pc' = FlowEnd
         /\ calls' = issued
         /\ UNCHANGED << attempt, gen_attempt, gen_calls >>

\* the call: the locals are initialised and the first loop iteration begins
Begin ==
    /\ pc = "start"
    /\ CASE entry = "generate_search_queries" ->
                /\ pc' = "generating"
                /\ calls' = Count(calls, "generate")
                /\ UNCHANGED << attempt, gen_attempt, gen_calls, result >>
         [] entry \in FanEntries ->
                /\ pc' = "searching"
                /\ UNCHANGED << attempt, gen_attempt, gen_calls, result, calls >>
         [] entry \in SearchEntries ->
                /\ pc' = "requesting"
                /\ UNCHANGED << attempt, gen_attempt, gen_calls, result, calls >>
         [] entry \in EvalEntries ->
                /\ pc' = "judging"
                /\ calls' = Count(calls, "evaluate")
                /\ UNCHANGED << attempt, gen_attempt, gen_calls, result >>
         [] entry = "process_query" ->
                /\ pc' = "classifying"
                /\ UNCHANGED << attempt, gen_attempt, gen_calls, result, calls >>
         [] entry \in LegacyEntries ->
                /\ pc' = "generating"
                /\ UNCHANGED << attempt, gen_attempt, gen_calls, result, calls >>
         [] entry \in ClientEntries ->
                /\ pc' = "posting"
                /\ UNCHANGED << attempt, gen_attempt, gen_calls, result, calls >>
         [] entry \in Engines ->
                NextAttempt(answers_history, evaluation, calls)
    /\ UNCHANGED << entry, invocation, session, exchange, progress_callback, callback_log, best_log,
                    settings, query, max_retries_arg, fixed_count,
                    search_queries, search_results, answer, previous_queries,
                    previous_answer, answers_history, evaluation, queries_returned,
                    gen_log, synth_log, last_verdict, workers, merged, fan_log, query_type,
                    reply >>

GenerateReturnsSkipsSearch(queries) ==
    /\ search_queries' = queries
    /\ pc' = "synthesizing"
    /\ UNCHANGED queries_returned

\* generate_search_queries returns `queries` to its caller
GenerateReturns(queries) ==
    IF entry = "generate_search_queries"
    THEN /\ queries_returned' = PyList(queries)
         /\ pc' = "done"
         /\ UNCHANGED search_queries
    ELSE /\ search_queries' = queries
         /\ pc' = "searching"
         /\ UNCHANGED queries_returned

\* one iteration of the for loop of generate_search_queries: one completion call
Generate ==
    /\ pc = "generating"
    /\ \E response \in IF entry \in Flows THEN LoopGenResponses ELSE GenResponses :
         LET out == GenerateIteration(response, fixed_count) IN
         /\ gen_calls' = gen_calls + 1
         /\ gen_log' = IF entry \in Flows THEN gen_log ELSE Append(gen_log, response)
         /\ calls' = Count(calls, "completion")
         /\ CASE out.kind = "return" ->
                   /\ GenerateReturns(out.queries)
                   /\ UNCHANGED gen_attempt
              [] out.kind = "continue" ->
                   IF gen_attempt + 1 < GenAttempts(settings)
                   THEN /\ gen_attempt' = gen_attempt + 1
                        /\ UNCHANGED << pc, search_queries, queries_returned >>
                   ELSE /\ GenerateReturns(Fallback(query))
                        /\ UNCHANGED gen_attempt
              [] out.kind = "raise" ->
                   /\ pc' = "raised"
                   /\ UNCHANGED << gen_attempt, search_queries, queries_returned >>
    /\ UNCHANGED << entry, invocation, session, exchange, progress_callback, callback_log, best_log,
                    settings, query, max_retries_arg, fixed_count, attempt,
                    search_results, answer, previous_queries, previous_answer,
                    answers_history, evaluation, result, synth_log, last_verdict,
                    workers, merged, fan_log, query_type,
                    reply >>

\* search_many (or fetch_search_results before it) returns `results`
FanReturns(results) ==
    IF entry \in Flows
    THEN /\ search_results' = results
         /\ pc' = "synthesizing"
         /\ UNCHANGED result
    ELSE /\ result' = PyList(results)
         /\ pc' = "done"
         /\ UNCHANGED search_results

\* the call of the search stage: fetch_search_results (answer_query) or
\* searcher.search_many (handle_search_flow) up to the point where every
\* per-query search() call is submitted to the pool or created as a task
FanOut ==
    /\ pc = "searching"
    /\ calls' = Count(calls, "search")
    /\ IF \/ entry \in {"answer_query", "fetch_search_results"} /\ search_queries = << >>
          \/ NoQueries(search_queries)
       THEN /\ FanReturns(<< >>)
            /\ UNCHANGED << workers, merged >>
       ELSE /\ workers' = [created |-> TRUE,
                            calls |-> [i \in 1..Len(search_queries) |-> "running"]]
            /\ merged' = << >>
            /\ pc' = "collecting"
            /\ UNCHANGED << result, search_results >>
    /\ session' = [session EXCEPT !.readers = {}, !.writers = {}]
    /\ UNCHANGED << entry, invocation, exchange, progress_callback, callback_log, best_log,
                    settings, query, max_retries_arg, fixed_count, attempt,
                    gen_attempt, search_queries, answer, previous_queries,
                    previous_answer, answers_history, evaluation,
                    queries_returned, gen_calls, gen_log, synth_log, last_verdict,
                    fan_log, query_type,
                    reply >>

\* one search() call of the fan-out completes and the as_completed loop of
\* search_many takes its outcome
SearchCall ==
    /\ pc = "collecting"
    /\ \E i \in 1..Len(workers.calls) :
       \E response \in IF entry \in Flows THEN LoopSearchResponses ELSE FanResponses :
       \E order \in TaskOrders(entry, response, settings) :
       \E set_cookie \in SetCookies(entry) :
         LET out == search(entry, response, order, settings) IN
         /\ workers.calls[i] = "running"
         /\ workers' = [workers EXCEPT !.calls[i] = "done"]
         /\ session' = SessionGet(session, i, set_cookie)
         /\ calls' = Count(calls, "request")
         /\ fan_log' = IF entry \in Flows THEN fan_log
                       ELSE Append(fan_log, [call |-> i, raised |-> out.raised,
                                             batch |-> out.batch])
         /\ CASE BatchOutcome(out) = "extend" ->
                   /\ merged' = Extend(merged, out.batch)
                   /\ UNCHANGED pc
              [] BatchOutcome(out) = "continue" ->
                   UNCHANGED << merged, pc >>
              [] BatchOutcome(out) = "propagates" ->
                   /\ pc' = "raised"
                   /\ UNCHANGED merged
    /\ UNCHANGED << entry, invocation, exchange, progress_callback, callback_log, best_log,
                    settings, query, max_retries_arg, fixed_count, attempt,
                    gen_attempt, search_queries, search_results, answer,
                    previous_queries, previous_answer, answers_history, evaluation,
                    result, queries_returned, gen_calls, gen_log, synth_log,
                    last_verdict, query_type,
                    reply >>

\* the as_completed loop is exhausted, the pool is shut down and search_many
\* returns
FanIn ==
    /\ pc = "collecting"
    /\ AllDone(workers.calls)
    /\ FanReturns(merged)
    /\ workers' = [workers EXCEPT !.calls = << >>]
    /\ merged' = << >>
    /\ UNCHANGED << entry, invocation, session, exchange, progress_callback, callback_log, best_log,
                    settings, query, max_retries_arg, fixed_count, attempt,
                    gen_attempt, search_queries, answer, previous_queries,
                    previous_answer, answers_history, evaluation,
                    queries_returned, calls, gen_calls, gen_log, synth_log,
                    last_verdict, fan_log, query_type,
                    reply >>

\* a direct search() call: the request, the tasks and the gathering loop
SearchAlone ==
    /\ pc = "requesting"
    /\ \E response \in SearchResponses :
       \E order \in TaskOrders(entry, response, settings) :
       \E set_cookie \in SetCookies(entry) :
         LET out == search(entry, response, order, settings) IN
         /\ calls' = Count(calls, "request")
         /\ session' = SessionGet(session, 1, set_cookie)
         /\ fan_log' = Append(fan_log, [call |-> 1, response |-> response,
                                        raised |-> out.raised, batch |-> out.batch,
                                        fetches |-> ContentFetches(entry, response,
                                                                   settings)])
         /\ IF out.raised
            THEN /\ pc' = "raised"
                 /\ UNCHANGED result
            ELSE /\ pc' = "done"
                 /\ result' = PyList(out.batch)
    /\ UNCHANGED << entry, invocation, exchange, progress_callback, callback_log, best_log,
                    settings, query, max_retries_arg, fixed_count, attempt,
                    gen_attempt, search_queries, search_results, answer,
                    previous_queries, previous_answer, answers_history, evaluation,
                    queries_returned, gen_calls, gen_log, synth_log, last_verdict,
                    workers, merged, query_type,
                    reply >>

OnSynthesisNoneOnly(ans) == IF ans = None THEN "break" ELSE "evaluate"

\* `if not answer:` after synthesize_answer
OnSynthesis(ans) == IF ~Truthy(ans) THEN "break" ELSE "evaluate"

RecordInFront(history, ans) == << ans.s >> \o history

\* answers_history.append(answer)
Record(history, ans) == Append(history, ans.s)

\* synthesize_answer, then break or record the answer
Synthesize ==
    /\ pc = "synthesizing"
    /\ \E response \in SynthResponses :
         LET ans == synthesize_answer(response) IN
         /\ answer' = ans
         /\ synth_log' = Append(synth_log, ans)
         /\ calls' = Count(Count(calls, "synthesize"), "completion")
         /\ search_results' = << >>     \* not read again: the next attempt rebinds it
         /\ IF OnSynthesis(ans) = "break"
            THEN /\ evaluation' = SynthesisFailed
                 /\ result' = FinalResult(answers_history, SynthesisFailed, limit)
                 /\ pc' = FlowEnd
                 /\ UNCHANGED answers_history
            ELSE /\ answers_history' = Record(answers_history, ans)
                 /\ pc' = "evaluating"
                 /\ UNCHANGED << evaluation, result >>
    /\ UNCHANGED << entry, invocation, session, exchange, progress_callback, callback_log, best_log,
                    settings, query, max_retries_arg, fixed_count, attempt,
                    gen_attempt, search_queries, previous_queries,
                    previous_answer, queries_returned, gen_calls, gen_log,
                    last_verdict, workers, merged, fan_log, query_type,
                    reply >>

OnEvaluationNeverReturns(ev) == "retry"

CarryFirstForward(queries, ans) ==
    IF previous_queries = None THEN [queries |-> PyList(queries), answer |-> ans]
    ELSE [queries |-> previous_queries, answer |-> previous_answer]

\* `previous_queries = search_queries` and `previous_answer = answer`
CarryForward(queries, ans) == [queries |-> PyList(queries), answer |-> ans]

CallbackArgsZeroBased(ev, n) == [evaluation |-> ev, attempt |-> n - 1]

\* progress_callback(evaluation, attempt)
CallbackArgs(ev, n) == [evaluation |-> ev, attempt |-> n]

\* `if evaluation.satisfactory:` after evaluate_answer
OnEvaluation(ev) == IF ev.satisfactory THEN "return" ELSE "retry"

\* evaluate_answer, then return or carry the attempt forward
Evaluate ==
    /\ pc = "evaluating"
    /\ \E response \in LoopEvalResponses :
         LET ev == evaluate_answer(response) IN
         /\ evaluation' = ev
         /\ last_verdict' = ev
         /\ IF OnEvaluation(ev) = "return"
            THEN /\ result' = SatisfactoryResult(answer.s, ev, attempt, answers_history)
                 /\ pc' = FlowEnd
                 /\ calls' = Count(Count(calls, "evaluate"), "completion")
                 /\ UNCHANGED << attempt, gen_attempt, gen_calls, previous_queries,
                                 previous_answer, callback_log >>
            ELSE /\ previous_queries' = CarryForward(search_queries, answer).queries
                 /\ previous_answer' = CarryForward(search_queries, answer).answer
                 /\ callback_log' = IF entry = "answer_query" /\ progress_callback
                                    THEN Append(callback_log, CallbackArgs(ev, attempt))
                                    ELSE callback_log
                 /\ NextAttempt(answers_history, ev,
                                Count(Count(calls, "evaluate"), "completion"))
    /\ UNCHANGED << entry, invocation, session, exchange, progress_callback, best_log,
                    settings, query, max_retries_arg, fixed_count,
                    search_queries, search_results, answer, answers_history,
                    queries_returned, gen_log, synth_log, workers, merged, fan_log, query_type,
                    reply >>

\* a direct evaluate_answer call: one completion call and the verdict made
\* of its response
EvaluateAlone ==
    /\ pc = "judging"
    /\ \E response \in EvalResponses :
         /\ result' = evaluate_answer(response)
         /\ gen_log' = Append(gen_log, response)
    /\ calls' = Count(calls, "completion")
    /\ pc' = "done"
    /\ UNCHANGED << entry, invocation, session, exchange, progress_callback, callback_log, best_log,
                    settings, query, max_retries_arg, fixed_count, attempt,
                    gen_attempt, search_queries, search_results, answer,
                    previous_queries, previous_answer, answers_history, evaluation,
                    queries_returned, gen_calls, synth_log, last_verdict, workers,
                    merged, fan_log, query_type,
                    reply >>

\* process_query: classify_query, then the route of the label
Classify ==
    /\ pc = "classifying"
    /\ \E response \in ClassifyResponses :
         LET label == classify_query(response) IN
         /\ query_type' = PyStr(label)
         /\ gen_log' = Append(gen_log, response)
         /\ CASE Route(label) = "math" ->
                   /\ pc' = "math"
                   /\ calls' = Count(calls, "completion")
                   /\ UNCHANGED << attempt, gen_attempt, gen_calls, result >>
              [] Route(label) = "simple" ->
                   /\ pc' = "simple"
                   /\ calls' = Count(calls, "completion")
                   /\ UNCHANGED << attempt, gen_attempt, gen_calls, result >>
              [] Route(label) = "search" ->
                   NextAttempt(answers_history, evaluation, Count(calls, "completion"))
    /\ UNCHANGED << entry, invocation, session, exchange, progress_callback, callback_log, best_log,
                    settings, query, max_retries_arg, fixed_count,
                    search_queries, search_results, answer, previous_queries,
                    previous_answer, answers_history, evaluation, queries_returned,
                    synth_log, last_verdict, workers, merged, fan_log,
                    reply >>

\* process_query: handle_simple_query and the return of its answer
SimpleAnswer ==
    /\ pc = "simple"
    /\ \E response \in SimpleResponses :
         IF SimpleCallOutcome(response) = "propagates"
         THEN /\ pc' = "raised"
              /\ UNCHANGED reply
         ELSE /\ pc' = "done"
              /\ reply' = Reply(handle_simple_query(response), "text")
    /\ calls' = Count(calls, "completion")
    /\ UNCHANGED << entry, invocation, session, exchange, progress_callback, callback_log, best_log,
                    settings, query, max_retries_arg, fixed_count, attempt,
                    gen_attempt, search_queries, search_results, answer,
                    previous_queries, previous_answer, answers_history, evaluation,
                    result, queries_returned, gen_calls, gen_log, synth_log,
                    last_verdict, workers, merged, fan_log, query_type >>

\* process_query: handle_math_query and the return of its result
MathAnswer ==
    /\ pc = "math"
    /\ \E response \in MathResponses, executed \in Executions :
         reply' = Reply(handle_math_query(response, executed), "math")
    /\ pc' = "done"
    /\ calls' = Count(calls, "completion")
    /\ UNCHANGED << entry, invocation, session, exchange, progress_callback, callback_log, best_log,
                    settings, query, max_retries_arg, fixed_count, attempt,
                    gen_attempt, search_queries, search_results, answer,
                    previous_queries, previous_answer, answers_history, evaluation,
                    result, queries_returned, gen_calls, gen_log, synth_log,
                    last_verdict, workers, merged, fan_log, query_type >>

\* process_query after handle_search_flow returned: evaluate_best_answer when
\* the result is unsatisfactory and has a history, then the return
SelectBest ==
    /\ pc = "selecting"
    /\ IF NeedsBestAnswer(result)
       THEN \E response \in BestResponses :
              LET best == evaluate_best_answer(response)
                  final == IF Truthy(best) THEN [result EXCEPT !.answer = best.s]
                           ELSE result
              IN  /\ result' = final
                  /\ reply' = Reply(final.answer, "search")
                  /\ calls' = Count(calls, "completion")
                  /\ best_log' = Append(best_log,
                                        [answers |-> BestAnswerArgs(result),
                                         response |-> response])
       ELSE /\ reply' = Reply(result.answer, "search")
            /\ UNCHANGED << result, calls, best_log >>
    /\ pc' = "done"
    /\ UNCHANGED << entry, invocation, session, exchange, progress_callback, callback_log,
                    settings, query, max_retries_arg, fixed_count, attempt,
                    gen_attempt, search_queries, search_results, answer,
                    previous_queries, previous_answer, answers_history, evaluation,
                    queries_returned, gen_calls, gen_log, synth_log, last_verdict,
                    workers, merged, fan_log, query_type >>

\* a direct chat_completion call: the request is posted and the exchange
\* is turned into the returned payload or into an exception
ChatCompletion ==
    /\ pc = "posting"
    /\ LET out == IF entry = "async_chat_completion"
                  THEN async_chat_completion(exchange)
                  ELSE chat_completion(exchange)
       IN  /\ result' = out
           /\ pc' = IF out.raises = "none" THEN "done" ELSE "raised"
    /\ calls' = Count(calls, "request")
    /\ UNCHANGED << entry, invocation, session, exchange, progress_callback, callback_log, best_log,
                    settings, query, max_retries_arg, fixed_count, attempt,
                    gen_attempt, search_queries, search_results, answer,
                    previous_queries, previous_answer, answers_history, evaluation,
                    queries_returned, gen_calls, gen_log, synth_log, last_verdict,
                    workers, merged, fan_log, query_type, reply >>

\* src/search.py: one iteration of the for loop of generate_search_queries
LegacyGenerate ==
    /\ entry \in LegacyEntries
    /\ pc = "generating"
    /\ \E response \in LegacyGenResponses :
         LET out == legacy_generate_iteration(response) IN
         CASE out.kind = "return" ->
                 /\ search_queries' = out.queries
                 /\ gen_attempt' = 0
                 /\ pc' = "searching"
           [] out.kind = "continue" ->
                 IF gen_attempt + 1 < LegacyGenRetries
                 THEN /\ gen_attempt' = gen_attempt + 1
                      /\ UNCHANGED << search_queries, pc >>
                 ELSE /\ search_queries' = << PyStr(query) >>
                      /\ gen_attempt' = 0
                      /\ pc' = "searching"
           [] out.kind = "raise" ->
                 /\ pc' = "raised"
                 /\ UNCHANGED << search_queries, gen_attempt >>
    /\ UNCHANGED << entry, invocation, session, exchange, progress_callback, callback_log, best_log,
                    settings, query, max_retries_arg, fixed_count, attempt,
                    search_results, answer, previous_queries, previous_answer,
                    answers_history, evaluation, result, queries_returned, calls,
                    gen_calls, gen_log, synth_log, last_verdict, workers, merged,
                    fan_log, query_type, reply >>

\* src/search.py: the pool of perform_search calls and the loop that
\* extends all_results
LegacySearch ==
    /\ entry \in LegacyEntries
    /\ pc = "searching"
    /\ search_results' \in LegacyResults
    /\ pc' = "synthesizing"
    /\ UNCHANGED << entry, invocation, session, exchange, progress_callback, callback_log, best_log,
                    settings, query, max_retries_arg, fixed_count, attempt,
                    gen_attempt, search_queries, answer, previous_queries,
                    previous_answer, answers_history, evaluation, result,
                    queries_returned, calls, gen_calls, gen_log, synth_log,
                    last_verdict, workers, merged, fan_log, query_type, reply >>

\* src/search.py: the completion call on the results; without choices the
\* loop is left
LegacySynthesize ==
    /\ entry \in LegacyEntries
    /\ pc = "synthesizing"
    /\ \E response \in LegacySynthResponses :
         IF response.choices # << >>
         THEN /\ answer' = PyStr(response.choices[1].message.content.s)
              /\ pc' = "evaluating"
         ELSE /\ pc' = "done"
              /\ UNCHANGED answer
    /\ search_results' = << >>      \* not read again: the next iteration rebinds it
    /\ UNCHANGED << entry, invocation, session, exchange, progress_callback, callback_log, best_log,
                    settings, query, max_retries_arg, fixed_count, attempt,
                    gen_attempt, search_queries, previous_queries,
                    previous_answer, answers_history, evaluation, result,
                    queries_returned, calls, gen_calls, gen_log, synth_log,
                    last_verdict, workers, merged, fan_log, query_type, reply >>

\* src/search.py: evaluate_answer, then the break or the next iteration of
\* `while True:`
LegacyEvaluate ==
    /\ entry \in LegacyEntries
    /\ pc = "evaluating"
    /\ \E response \in LegacyEvalResponses :
         LET ev == legacy_evaluate_answer(response) IN
         /\ evaluation' = ev
         /\ IF ev.satisfactory
            THEN /\ pc' = "done"
                 /\ UNCHANGED << previous_queries, previous_answer >>
            ELSE /\ previous_queries' = PyList(search_queries)
                 /\ previous_answer' = answer
                 /\ pc' = "generating"
    /\ UNCHANGED << entry, invocation, session, exchange, progress_callback, callback_log, best_log,
                    settings, query, max_retries_arg, fixed_count, attempt,
                    gen_attempt, search_queries, search_results, answer,
                    answers_history, result, queries_returned, calls, gen_calls,
                    gen_log, synth_log, last_verdict, workers, merged, fan_log,
                    query_type, reply >>

\* a caller runs answer_query or handle_search_flow
LoopLocalsOfLastCall ==
    [previous_queries |-> previous_queries, previous_answer |-> previous_answer,
     answers_history |-> answers_history, evaluation |-> evaluation]

\* the locals answer_query and handle_search_flow bind before their loop
LoopLocals ==
    [previous_queries |-> None, previous_answer |-> None,
     answers_history |-> << >>, evaluation |-> EvaluationResult(FALSE, << >>)]

\* the queries of a second call
AgainQueries == { << "q" >>, << "p" >> }

\* the caller, having taken the result of a first call, calls answer_query
\* (or handle_search_flow) again on the same workflow object: the settings,
\* the client and the searcher with its session are those of the first
\* call, the query and the per-request budget are new, and the new call
\* binds its own locals.  The observations start again with the call.
CallAgain ==
    /\ pc = "done"
    /\ entry \in Engines
    /\ invocation = 1
    /\ invocation' = invocation + 1
    /\ pc' = "start"
    /\ query' \in AgainQueries
    /\ max_retries_arg' \in IF entry = "handle_search_flow"
                            THEN {None, PyInt(MaxRetries - 1)} ELSE {None}
    /\ previous_queries' = LoopLocals.previous_queries
    /\ previous_answer' = LoopLocals.previous_answer
    /\ answers_history' = LoopLocals.answers_history
    /\ evaluation' = LoopLocals.evaluation
    /\ attempt' = 0
    /\ gen_attempt' = 0
    /\ search_queries' = << >>
    /\ search_results' = << >>
    /\ answer' = None
    /\ calls' = NoCalls
    /\ gen_calls' = 0
    /\ synth_log' = << >>
    /\ last_verdict' = None
    /\ result' = None
    /\ UNCHANGED << entry, session, exchange, progress_callback, callback_log,
                    best_log, settings, fixed_count, queries_returned,
                    gen_log, workers, merged, fan_log, query_type, reply >>

Init == Start(Engines) /\ progress_callback = FALSE

Next == Begin \/ Generate \/ FanOut \/ SearchCall \/ FanIn \/ Synthesize \/ Evaluate

Spec == Init /\ [][Next]_vars

\* a caller runs answer_query or handle_search_flow with the largest
\* configured budget, and every call of a collaborator returns or fails: a
\* step that can be taken is taken
InitFair ==
    /\ Start(Engines)
    /\ progress_callback = FALSE
    /\ settings.max_retries = MaxRetries
    /\ max_retries_arg \in {None, PyInt(1)}

SpecFair == InitFair /\ [][Next]_vars /\ WF_vars(Next)

\* a caller runs generate_search_queries alone
InitGen == Start({"generate_search_queries"}) /\ progress_callback = FALSE

NextGen == Begin \/ Generate

SpecGen == InitGen /\ [][NextGen]_vars

\* a caller runs one of the top-level entry points: answer_query of the
\* synchronous workflow or process_query of the asynchronous one
TopEntries == {"answer_query", "process_query"}

InitTop == Start(TopEntries) /\ progress_callback = FALSE

NextTop ==
    \/ Begin \/ Classify \/ SimpleAnswer \/ MathAnswer
    \/ Generate \/ FanOut \/ SearchCall \/ FanIn \/ Synthesize \/ Evaluate
    \/ SelectBest

SpecTop == InitTop /\ [][NextTop]_vars

\* a caller runs search_many (or fetch_search_results) alone
InitFan == Start(FanEntries) /\ progress_callback = FALSE

NextFan == Begin \/ FanOut \/ SearchCall \/ FanIn

SpecFan == InitFan /\ [][NextFan]_vars

\* a caller runs evaluate_answer alone
InitEval == Start(EvalEntries) /\ progress_callback = FALSE

NextEval == Begin \/ EvaluateAlone

SpecEval == InitEval /\ [][NextEval]_vars

\* a caller runs search alone
InitSearch == Start(SearchEntries) /\ progress_callback = FALSE

NextSearch == Begin \/ SearchAlone

SpecSearch == InitSearch /\ [][NextSearch]_vars

\* a caller runs answer_query, with or without a progress_callback
InitProgress == Start({"answer_query"}) /\ progress_callback \in BOOLEAN

SpecProgress == InitProgress /\ [][Next]_vars

\* the legacy script works on one query; every call it makes returns or
\* fails, so a step that can be taken is taken
InitLegacy == Start(LegacyEntries) /\ progress_callback = FALSE

NextLegacy ==
    Begin \/ LegacyGenerate \/ LegacySearch \/ LegacySynthesize \/ LegacyEvaluate

SpecLegacy == InitLegacy /\ [][NextLegacy]_vars /\ WF_vars(NextLegacy)

\* a caller runs chat_completion alone
InitClient == Start(ClientEntries) /\ progress_callback = FALSE

NextClient == Begin \/ ChatCompletion

SpecClient == InitClient /\ [][NextClient]_vars

\* two successive calls of answer_query, or of handle_search_flow, on one
\* workflow object
InitAgain ==
    /\ Start(Engines)
    /\ progress_callback = FALSE
    /\ settings.query_generation_attempts = MaxGenAttempts
    /\ max_retries_arg \in {None, PyInt(1)}

NextAgain == Next \/ CallAgain

SpecAgain == InitAgain /\ [][NextAgain]_vars

----------------------------------------------------------------------------
(* Properties of the engine (specification Spec) *)

Last(seq) == seq[Len(seq)]

\* the texts of the non-empty answers of a log of synthesize_answer results
RECURSIVE Produced(_)
Produced(log) ==
    IF log = << >> THEN << >>
    ELSE IF Truthy(Head(log)) THEN << Head(log).s >> \o Produced(Tail(log))
    ELSE Produced(Tail(log))

\* the retry budget the caller configured: the per-request value of
\* handle_search_flow when one is given (a value of 0 counts as not given),
\* otherwise Settings.max_retries
Budget ==
    IF entry = "handle_search_flow" /\ max_retries_arg # None /\ max_retries_arg.n # 0
    THEN max_retries_arg.n
    ELSE settings.max_retries

Returned == entry \in Engines /\ pc = "done"

SynthesisFailedLast == synth_log # << >> /\ ~Truthy(Last(synth_log))

Satisfied == last_verdict # None /\ last_verdict.satisfactory

\* C1: the attempts reported in the returned WorkflowResult, and the number
\* of attempts the loop starts (generation calls it issues), never exceed the
\* configured retry budget.
C1_BoundedAttempts ==
    entry \in Engines =>
        /\ calls.generate <= Budget
        /\ attempt <= Budget
        /\ pc = "done" => result.attempts <= Budget

C1_Witness ==
    /\ Returned
    /\ entry = "handle_search_flow"
    /\ max_retries_arg = PyInt(2)
    /\ settings.max_retries = 1
    /\ calls.generate = 2
    /\ result.attempts = 2

\* C2: once the evaluation of attempt k is satisfactory the engine has
\* returned attempts = k with attempt k's answer and verdict, and exactly k
\* generation, search, synthesis and evaluation calls have been issued (none
\* for attempt k+1), in every later state too.
C2_EarlyTermination ==
    (entry \in Engines /\ Satisfied) =>
        /\ pc = "done"
        /\ result.attempts = calls.evaluate
        /\ result.answer = Last(synth_log).s
        /\ result.evaluation = last_verdict
        /\ calls.generate = calls.evaluate
        /\ calls.search = calls.evaluate
        /\ calls.synthesize = calls.evaluate

C2_Witness ==
    /\ Returned
    /\ Satisfied
    /\ result.attempts = 2
    /\ Budget = 3
    /\ result.answer = << "b" >>

\* C3: once synthesis has returned no answer (None or empty text) on attempt
\* k the engine has returned a result with satisfactory = FALSE and the fixed
\* reason; attempt k has no evaluation call and no call of any stage is
\* issued for a later attempt.
C3_SynthesisFailureIsFatal ==
    (entry \in Engines /\ SynthesisFailedLast) =>
        /\ pc = "done"
        /\ result.evaluation =
             [satisfactory |-> FALSE,
              reason |-> << "Unable to produce an answer from the gathered search results." >>]
        /\ calls.evaluate = Len(synth_log) - 1
        /\ calls.generate = Len(synth_log)
        /\ calls.search = Len(synth_log)
        /\ calls.synthesize = Len(synth_log)

C3_Witness ==
    /\ Returned
    /\ Len(synth_log) = 2
    /\ Last(synth_log) = PyStr(<< >>)
    /\ Budget = 3
    /\ calls.evaluate = 1

\* C4: when the loop is cut short by a synthesis failure on attempt k the
\* result reports attempts = k (and answer = "" when k = 1).
C4_AttemptsAfterSynthesisFailure ==
    (Returned /\ SynthesisFailedLast) =>
        /\ result.attempts = Len(synth_log)
        /\ Len(synth_log) = 1 => result.answer = << >>

\* C5: the returned history is never longer than the reported attempts.
C5_HistoryWithinAttempts ==
    Returned => Len(result.answers_history) <= result.attempts

C5_Witness ==
    /\ Returned
    /\ Len(result.answers_history) = 3
    /\ result.attempts = 3
    /\ Satisfied

\* C6: at every point of the loop, and in the returned result,
\* answers_history is the sequence of the non-empty answers synthesize_answer
\* has returned so far, in attempt order, the last one included also when it
\* was judged satisfactory.
C6_HistoryIsWhatWasSynthesized ==
    entry \in Engines =>
        /\ answers_history = Produced(synth_log)
        /\ pc = "done" => result.answers_history = Produced(synth_log)

C6_Witness ==
    /\ Returned
    /\ Satisfied
    /\ result.answers_history = << << "a" >>, << "b" >> >>

\* C7: when every synthesis succeeded and no evaluation was satisfactory, a
\* budget B >= 1 is used up: exactly B attempts ran, attempts = B, the answer
\* is the last of the B answers of the history and the evaluation is the last
\* verdict; a result whose history is empty has the empty answer.
C7_ExhaustedBudget ==
    Returned =>
        /\ (Budget >= 1 /\ ~SynthesisFailedLast /\ ~Satisfied) =>
              /\ calls.generate = Budget
              /\ calls.synthesize = Budget
              /\ calls.evaluate = Budget
              /\ result.attempts = Budget
              /\ Len(result.answers_history) = Budget
              /\ result.answers_history = Produced(synth_log)
              /\ result.answer = Last(result.answers_history)
              /\ result.evaluation = last_verdict
        /\ Produced(synth_log) = << >> => result.answer = << >>

C7_Witness ==
    /\ Returned
    /\ Budget = 3
    /\ ~Satisfied
    /\ result.answers_history = << << "a" >>, << "a" >>, << "b" >> >>
    /\ result.answer = << "b" >>

\* C16: within a request the stages run one after another: the generation
\* call of attempt N+1 is issued only when the evaluation call of attempt N
\* has returned, and the synthesis call of an attempt is issued only after
\* search_many has returned, which it does only when every search call of
\* that attempt's fan-out has completed.
C16_StagesInSequence ==
    [][ /\ calls'.generate # calls.generate =>
              /\ calls'.generate = calls.generate + 1
              /\ calls'.evaluate = calls.generate
              /\ calls'.synthesize = calls.generate
              /\ pc \in {"start", "evaluating"}
        /\ calls'.synthesize # calls.synthesize =>
              /\ pc = "synthesizing"
              /\ calls.search = calls'.synthesize
        /\ (pc' = "synthesizing" /\ pc # "synthesizing") =>
              /\ workers.created
              /\ Len(workers.calls) = Len(search_queries)
              /\ \A i \in 1..Len(workers.calls) : workers.calls[i] = "done"
      ]_vars

C16_Witness ==
    /\ entry \in Engines
    /\ attempt = 2
    /\ pc = "synthesizing"
    /\ Len(search_queries) = 2
    /\ calls.request = 4
    /\ calls.evaluate = 1
    /\ Len(search_results) = 1

----------------------------------------------------------------------------
(* Properties of generate_search_queries (specification SpecGen) *)

GenReturned == entry = "generate_search_queries" /\ pc = "done"

\* a fixed count is requested: fixed_count is an integer other than 0 (in
\* the code and in the prompt `if fixed_count` treats 0 like None)
FixedCountRequested == fixed_count # None /\ fixed_count.n # 0

\* the response carries text that json.loads rejects
NotJson(r) ==
    /\ r.raises = "none"
    /\ r.choices # << >>
    /\ r.choices[1].has_message
    /\ r.choices[1].message # None
    /\ r.choices[1].message.content # None
    /\ r.choices[1].message.content.json = [t |-> "invalid"]

\* the number of items of a decoded array that are not blank
RECURSIVE NonBlank(_)
NonBlank(items) ==
    IF items = << >> THEN 0
    ELSE (IF \E i \in 1..Len(PyStrOf(Head(items))) : PyStrOf(Head(items))[i] # " "
          THEN 1 ELSE 0) + NonBlank(Tail(items))

\* the response is one of the failures generate_search_queries retries on:
\* GroqAPIError, no choices or no content, text that is not JSON, JSON that
\* is not a list, a list with only empty items, a list of the wrong length
FailedTry(r) ==
    \/ r.raises = "GroqAPIError"
    \/ r.choices = << >>
    \/ ~r.choices[1].has_message
    \/ r.choices[1].message = None
    \/ r.choices[1].message.content = None
    \/ r.choices[1].message.content.s = << >>
    \/ r.choices[1].message.content.json.t # "list"
    \/ NonBlank(r.choices[1].message.content.json.l) = 0
    \/ /\ FixedCountRequested
       /\ NonBlank(r.choices[1].message.content.json.l) # fixed_count.n

\* C8: called with a fixed count N (N >= 1), generate_search_queries returns
\* a list of exactly N queries, or [original_query] after all its tries are
\* used up; never a list of another size.
C8_FixedCountContract ==
    (GenReturned /\ FixedCountRequested) =>
        \/ Len(queries_returned.l) = fixed_count.n
        \/ /\ queries_returned.l = << query >>
           /\ gen_calls = Max(1, settings.query_generation_attempts)

C8_Witness ==
    /\ GenReturned
    /\ fixed_count = PyInt(2)
    /\ gen_calls = 2
    /\ queries_returned.l = << << "x" >>, << "y" >> >>

\* C9 as stated: when every response is text that is not JSON,
\* generate_search_queries makes exactly query_generation_attempts
\* completion calls and returns [original_query].
C9_AlwaysNotJson ==
    (GenReturned /\ \A i \in 1..Len(gen_log) : NotJson(gen_log[i])) =>
        /\ gen_calls = settings.query_generation_attempts
        /\ queries_returned.l = << query >>

\* C9 amended: when every response is text that is not JSON,
\* generate_search_queries makes exactly max(1, query_generation_attempts)
\* completion calls and returns [original_query], the query unchanged.
C9_AlwaysNotJsonClamped ==
    (GenReturned /\ \A i \in 1..Len(gen_log) : NotJson(gen_log[i])) =>
        /\ gen_calls = Max(1, settings.query_generation_attempts)
        /\ Len(gen_log) = gen_calls
        /\ queries_returned.l = << query >>

C9_Witness ==
    /\ GenReturned
    /\ settings.query_generation_attempts = 2
    /\ Len(gen_log) = 2
    /\ \A i \in 1..Len(gen_log) : NotJson(gen_log[i])
    /\ query = << " ", "q" >>
    /\ queries_returned.l = << << " ", "q" >> >>

\* C10: generate_search_queries never raises, whatever each completion call
\* does; it returns a non-empty list, and [original_query] when every try
\* failed.
C10_GenerateNeverRaises ==
    entry = "generate_search_queries" =>
        /\ pc # "raised"
        /\ pc = "done" =>
             /\ queries_returned.t = "list"
             /\ Len(queries_returned.l) >= 1
             /\ (\A i \in 1..Len(gen_log) : FailedTry(gen_log[i])) =>
                    queries_returned.l = << query >>

C10_Witness ==
    /\ GenReturned
    /\ Len(gen_log) = 2
    /\ gen_log[1].raises = "GroqAPIError"
    /\ gen_log[2].raises = "none"
    /\ FailedTry(gen_log[2])
    /\ queries_returned.l = << query >>

\* the response carries text that decodes to a JSON array
CarriesList(r) ==
    /\ r.raises = "none"
    /\ r.choices # << >>
    /\ r.choices[1].has_message
    /\ r.choices[1].message # None
    /\ r.choices[1].message.content # None
    /\ r.choices[1].message.content.json.t = "list"

ListOf(r) == r.choices[1].message.content.json.l

HasText(s) == \E k \in 1..Len(s) : s[k] # " "

\* C11: with no fixed count a decoded list is accepted only when it holds at
\* least 2 queries: a list of fewer than 2 is treated like a parse failure
\* (the try is spent; after the last try the fallback [original_query] is
\* returned), and an accepted list of more than 5 is cut to its first 5.
C11_AtLeastTwoQueries ==
    (GenReturned /\ ~FixedCountRequested /\ CarriesList(Last(gen_log))) =>
        LET n == NonBlank(ListOf(Last(gen_log))) IN
        /\ n < 2 =>
              /\ queries_returned.l = << query >>
              /\ Len(gen_log) = Max(1, settings.query_generation_attempts)
        /\ n >= 2 =>
              /\ Len(queries_returned.l) = (IF n > 5 THEN 5 ELSE n)
              /\ queries_returned.l =
                    SubSeq(CleanQueries(ListOf(Last(gen_log))), 1,
                           Len(queries_returned.l))

\* C12 as stated: every returned list has between 1 and 5 elements, all
\* non-empty after trimming and pairwise distinct.
C12_OneToFiveDistinct ==
    GenReturned =>
        LET l == queries_returned.l IN
        /\ Len(l) >= 1
        /\ Len(l) <= 5
        /\ \A i \in 1..Len(l) : HasText(l[i])
        /\ \A i, j \in 1..Len(l) : i # j => l[i] # l[j]

\* C12 amended: every returned list has at least 1 element, at most 5 when
\* no fixed count is requested (with a fixed count N it has N elements or is
\* [original_query]), and every element is non-empty after trimming; the
\* elements need not be distinct.
C12_NonEmptyQueries ==
    GenReturned =>
        LET l == queries_returned.l IN
        /\ Len(l) >= 1
        /\ ~FixedCountRequested => Len(l) <= 5
        /\ FixedCountRequested => (Len(l) = fixed_count.n \/ l = << query >>)
        /\ \A i \in 1..Len(l) : HasText(l[i])

C12_Witness ==
    /\ GenReturned
    /\ ~FixedCountRequested
    /\ CarriesList(Last(gen_log))
    /\ Len(ListOf(Last(gen_log))) > 5
    /\ queries_returned.l = << << "x" >>, << "x" >>, << "x" >>, << "x" >>, << "x" >> >>

----------------------------------------------------------------------------
(* Properties of search_many and fetch_search_results (specification       *)
(* SpecFan)                                                                *)

FanReturned == entry \in FanEntries /\ pc = "done"

\* the batches of the logged calls that returned, joined in log order
RECURSIVE Succeeded(_)
Succeeded(log) ==
    IF log = << >> THEN << >>
    ELSE (IF Head(log).raised THEN << >> ELSE Head(log).batch) \o Succeeded(Tail(log))

Occurrences(seq, x) == Cardinality({ k \in 1..Len(seq) : seq[k] = x })

Elements(seq) == { seq[k] : k \in 1..Len(seq) }

RECURSIVE SumOfLengths(_)
SumOfLengths(log) ==
    IF log = << >> THEN 0
    ELSE (IF Head(log).raised THEN 0 ELSE Len(Head(log).batch)) + SumOfLengths(Tail(log))

\* C13: whichever per-query search calls fail (raise, or lose their request
\* and return nothing), search_many does not raise, every per-query call runs
\* to completion before it returns, and the returned list holds exactly the
\* results of the calls that succeeded.
C13_FanOutResilience ==
    entry \in FanEntries =>
        /\ pc # "raised"
        /\ pc = "done" =>
             /\ Len(fan_log) = Len(search_queries)
             /\ \A i \in 1..Len(search_queries) :
                    \E k \in 1..Len(fan_log) : fan_log[k].call = i
             /\ \A x \in Elements(result.l) \cup Elements(Succeeded(fan_log)) :
                    Occurrences(result.l, x) = Occurrences(Succeeded(fan_log), x)

C13_Witness ==
    /\ FanReturned
    /\ Len(fan_log) = 2
    /\ fan_log[1].raised
    /\ ~fan_log[2].raised
    /\ fan_log[2].batch # << >>
    /\ result.l = fan_log[2].batch

C15_NoQueriesNoWork ==
    (entry \in FanEntries /\ search_queries = << >>) =>
        /\ calls.request = 0
        /\ ~workers.created
        /\ pc \in {"start", "searching", "done"}
        /\ pc = "done" => result = PyList(<< >>)

C15_Witness ==
    /\ FanReturned
    /\ entry = "async_search_many"
    /\ search_queries = << >>
    /\ result = PyList(<< >>)
    /\ calls.search = 1

----------------------------------------------------------------------------
(* Properties of evaluate_answer (specification SpecEval) *)

\* the response is a failure of the completion client, has no content, has
\* content that is not JSON, or JSON that is not an object
EvalFailure(r) ==
    \/ r.raises = "GroqAPIError"
    \/ r.choices = << >>
    \/ ~r.choices[1].has_message
    \/ r.choices[1].message = None
    \/ r.choices[1].message.content = None
    \/ r.choices[1].message.content.json.t # "dict"

\* C17: evaluate_answer makes exactly one completion call and never raises;
\* when the call fails, or its response has no content, content that is not
\* JSON or JSON that is not an object, it returns satisfactory = FALSE with a
\* non-empty reason.
C17_EvaluateNeverRaises ==
    entry \in EvalEntries =>
        /\ pc # "raised"
        /\ calls.completion <= 1
        /\ pc = "done" =>
             /\ calls.completion = 1
             /\ Len(gen_log) = 1
             /\ result.satisfactory \in BOOLEAN
             /\ EvalFailure(gen_log[1]) =>
                    /\ result.satisfactory = FALSE
                    /\ result.reason # << >>

C17_Witness ==
    /\ entry \in EvalEntries
    /\ pc = "done"
    /\ gen_log[1].raises = "none"
    /\ EvalFailure(gen_log[1])
    /\ gen_log[1].choices # << >>
    /\ gen_log[1].choices[1].has_message
    /\ gen_log[1].choices[1].message # None
    /\ gen_log[1].choices[1].message.content # None
    /\ gen_log[1].choices[1].message.content.json.t = "list"
    /\ result = [satisfactory |-> FALSE, reason |-> << "Unable to evaluate the answer" >>]

----------------------------------------------------------------------------
(* Properties of the top-level entry points (specification SpecTop) *)

\* C18: whatever completion calls fail with GroqAPIError and whatever search
\* calls fail, answer_query and process_query end by returning a result: no
\* failure leaves them as an exception, on the simple, math and search
\* routes alike.
C18_NoFailurePropagates ==
    entry \in TopEntries => pc # "raised"

----------------------------------------------------------------------------
(* Properties of search (specification SpecSearch) *)

SearchReturned == entry \in SearchEntries /\ pc = "done"

\* the group of the answered page a returned result was made from
GroupOf(r) ==
    CHOOSE g \in Elements(fan_log[1].response.groups) : g.link = r.link

\* `out` is `raw` cut to at most n characters: None stays None, text of at
\* most n characters is unchanged, longer text is its first n characters
\* followed by three dots
CutTo(raw, out, n) ==
    /\ raw = None => out = None
    /\ (raw # None /\ Len(raw.s) <= n) => out = raw
    /\ (raw # None /\ Len(raw.s) > n) =>
          /\ out # None
          /\ Len(out.s) = n + 3
          /\ \A k \in 1..n : out.s[k] = raw.s[k]
          /\ \A k \in (n + 1)..(n + 3) : out.s[k] = "."

\* C19: in every result search() returns, description and content are each
\* the group's description text and page text cut to max_content_length on
\* their own: unchanged up to that length, otherwise the first
\* max_content_length characters followed by '...'; None stays None.
C19_TruncatedFields ==
    SearchReturned =>
        \A k \in 1..Len(result.l) :
            /\ CutTo(GroupOf(result.l[k]).description_text, result.l[k].description,
                     settings.max_content_length)
            /\ CutTo(GroupOf(result.l[k]).fetched, result.l[k].content,
                     settings.max_content_length)

C19_Witness ==
    /\ SearchReturned
    /\ settings.max_content_length = MaxContentLength
    /\ \E k \in 1..Len(result.l) :
          /\ result.l[k].link = PyStr(<< "6" >>)
          /\ result.l[k].description = PyStr(T(MaxContentLength))
          /\ Len(result.l[k].content.s) = MaxContentLength + 3

\* C20: no result search() returns lacks both description and content: a
\* group with neither is dropped.
C20_NoEmptyResult ==
    SearchReturned =>
        \A k \in 1..Len(result.l) :
            \/ (result.l[k].description # None /\ result.l[k].description.s # << >>)
            \/ (result.l[k].content # None /\ result.l[k].content.s # << >>)

C20_Witness ==
    /\ SearchReturned
    /\ Len(fan_log[1].response.groups) = 2
    /\ fan_log[1].response.groups[1].link = PyStr(<< "2" >>)
    /\ fan_log[1].response.groups[2].link = PyStr(<< "5" >>)
    /\ Len(result.l) = 1
    /\ result.l[1].link = PyStr(<< "5" >>)

----------------------------------------------------------------------------
(* Properties of process_query (specification SpecTop) *)

\* classify_query has returned and process_query holds its label
Classified == entry = "process_query" /\ query_type # None

\* the response to the completion call of classify_query
ClassifierResponse == gen_log[1]

\* the engine was never entered: no stage was called, no attempt begun
WorkflowNotStarted ==
    /\ attempt = 0
    /\ calls.generate = 0
    /\ calls.search = 0
    /\ calls.synthesize = 0
    /\ calls.evaluate = 0
    /\ result = None
    /\ best_log = << >>

\* C21: whatever the completion client answers, the label classify_query
\* returns is one of simple, realtime and math.
C21_OneOfThreeLabels ==
    Classified => query_type.s \in { Simple, Realtime, Math }

\* the completion call failed, or its response carries no content
ClassifierGaveNothing(r) ==
    \/ r.raises = "GroqAPIError"
    \/ r.choices = << >>
    \/ r.choices[1].message.content = None
    \/ r.choices[1].message.content.s = << >>

\* C22: when the completion call of classify_query fails with GroqAPIError
\* or its response has no content, classify_query returns simple and does
\* not raise; process_query goes to handle_simple_query, answers with type
\* text, and the search workflow is never started.
C22_FailureMeansSimple ==
    entry = "process_query" /\ gen_log # << >>
                            /\ ClassifierGaveNothing(ClassifierResponse) =>
        /\ query_type = PyStr(Simple)
        /\ pc \in {"simple", "done", "raised"}
        /\ pc = "raised" => calls.completion = 2    \* raised by the simple handler
        /\ pc = "done" => reply.type = "text"
        /\ WorkflowNotStarted

C22_Witness ==
    /\ entry = "process_query"
    /\ gen_log # << >>
    /\ ClassifierResponse.raises = "GroqAPIError"
    /\ query_type = PyStr(Simple)
    /\ pc = "done"
    /\ reply.type = "text"
    /\ calls.generate = 0

\* C23: the label decides the one route process_query takes.  math: only
\* handle_math_query runs and the reply has type math.  simple: only the one
\* completion call of handle_simple_query runs and the reply has type text.
\* realtime: handle_search_flow runs and the reply has type search.  For
\* simple and math the search workflow is never started.
C23_OneRoutePerLabel ==
    Classified =>
        /\ query_type.s = Math =>
              /\ pc \in {"math", "done"}
              /\ pc = "done" => reply.type = "math" /\ calls.completion = 2
              /\ WorkflowNotStarted
        /\ query_type.s = Simple =>
              /\ pc \in {"simple", "done", "raised"}
              /\ pc = "done" => reply.type = "text" /\ calls.completion = 2
              /\ calls.completion <= 2
              /\ WorkflowNotStarted
        /\ query_type.s = Realtime =>
              /\ pc \notin {"math", "simple", "classifying"}
              /\ pc = "done" => reply.type = "search" /\ result # None
                                /\ reply.response = result.answer

C23_Witness ==
    /\ Classified
    /\ query_type.s = Math
    /\ pc = "done"
    /\ reply.type = "math"
    /\ calls.generate = 0
    /\ calls.completion = 2

\* the text evaluate_best_answer hands back for a response: the stripped
\* content, empty when the call failed or gave nothing
SelectedText(r) ==
    IF r.raises # "none" \/ r.choices = << >> THEN << >>
    ELSE IF r.choices[1].message.content = None THEN << >>
    ELSE Strip(r.choices[1].message.content.s)

\* C24: process_query calls evaluate_best_answer at most once, only after
\* handle_search_flow returned a result that is not satisfactory and has a
\* non-empty answers_history, and with that whole history; the text it
\* returns becomes the response, and when it fails or returns nothing the
\* response is the last answer of the history.  After a satisfactory result
\* it is not called.
C24_BestAnswerSelection ==
    entry = "process_query" =>
        /\ Len(best_log) <= 1
        /\ best_log # << >> =>
              /\ pc = "done"
              /\ Route(query_type.s) = "search"
              /\ ~result.evaluation.satisfactory
              /\ result.answers_history # << >>
              /\ best_log[1].answers = result.answers_history
              /\ reply.type = "search"
              /\ reply.response =
                    IF SelectedText(best_log[1].response) # << >>
                    THEN SelectedText(best_log[1].response)
                    ELSE Last(result.answers_history)
        /\ pc = "done" /\ result # None /\ result.evaluation.satisfactory =>
              /\ best_log = << >>
              /\ reply.response = result.answer

C24_Witness ==
    /\ entry = "process_query"
    /\ pc = "done"
    /\ Len(best_log) = 1
    /\ Len(best_log[1].answers) >= 2
    /\ SelectedText(best_log[1].response) # << >>
    /\ reply.response = SelectedText(best_log[1].response)
    /\ reply.response # Last(result.answers_history)

----------------------------------------------------------------------------
(* Properties of chat_completion (specification SpecClient) *)

\* the exchange is one for which the call has to fail: no response, a
\* status outside 200..299, a body that is not JSON, or JSON without a
\* "choices" member
MustFail(x) ==
    \/ x.network = "fails"
    \/ x.status \notin 200..299
    \/ x.body = Invalid
    \/ ~(x.body.t \in {"dict", "list"} /\ Contains(x.body))

\* C25: a chat_completion call ends in one of two ways: it raises
\* GroqAPIError, and does so on a network failure, on every status outside
\* 200..299, on a body that is not JSON and on JSON without "choices"; or it
\* returns a payload that contains "choices".  No other exception leaves it.
C25_OnlyGroqAPIError ==
    entry \in ClientEntries /\ pc \in {"done", "raised"} =>
        /\ result.raises \in {"GroqAPIError", "none"}
        /\ MustFail(exchange) => result.raises = "GroqAPIError"
        /\ ~MustFail(exchange) =>
              /\ result.raises = "none"
              /\ Contains(result.data)

----------------------------------------------------------------------------
(* Properties of the progress callback (specification SpecProgress) *)

\* the attempt the loop is working on has not been evaluated yet
InAttempt == pc \in {"generating", "searching", "collecting", "synthesizing",
                     "evaluating"}

\* evaluate_answer calls that returned an unsatisfactory verdict so far
UnsatisfactoryVerdicts ==
    calls.evaluate - (IF last_verdict # None /\ last_verdict.satisfactory THEN 1 ELSE 0)

\* C26: with a progress_callback, answer_query calls it once for every
\* attempt whose evaluate_answer verdict is unsatisfactory, with that
\* verdict and the attempt's number counted from 1, in the order of the
\* attempts and before the generation call of the next attempt; it does not
\* call it for a satisfactory verdict.
C26_CallbackPerUnsatisfactoryAttempt ==
    entry = "answer_query" /\ progress_callback =>
        /\ Len(callback_log) = UnsatisfactoryVerdicts
        /\ \A i \in 1..Len(callback_log) :
              /\ callback_log[i].attempt = i
              /\ ~callback_log[i].evaluation.satisfactory
        /\ last_verdict # None /\ ~last_verdict.satisfactory =>
              Last(callback_log).evaluation = last_verdict
        /\ InAttempt => Len(callback_log) = attempt - 1

C26_Witness ==
    /\ entry = "answer_query"
    /\ progress_callback
    /\ pc = "done"
    /\ result.evaluation.satisfactory
    /\ result.attempts = 3
    /\ Len(callback_log) = 2
    /\ callback_log[2].attempt = 2

----------------------------------------------------------------------------
(* Properties of the loop's feedback (specification Spec) *)

\* C27: the generate_search_queries call of attempt 1 is given no previous
\* queries and no previous answer; the call of attempt k+1 is given the
\* queries attempt k searched with and the answer attempt k synthesized, not
\* those of an earlier attempt.
C27_FeedbackOfPreviousAttempt ==
    [][ /\ pc' = "generating" /\ attempt' = 1 =>
              previous_queries' = None /\ previous_answer' = None
        /\ pc' = "generating" /\ attempt' > 1 =>
              previous_answer' = PyStr(answers_history'[attempt' - 1])
        /\ pc = "evaluating" /\ pc' = "generating" =>
              /\ attempt' = attempt + 1
              /\ previous_queries' = PyList(search_queries)
              /\ previous_answer' = answer
        \* the queries of an attempt stay what its generation call returned
        /\ pc \in {"searching", "collecting", "synthesizing", "evaluating"} =>
              search_queries' = search_queries
        \* and are not replaced while the generation call runs
        /\ pc = "generating" =>
              UNCHANGED << previous_queries, previous_answer >>
      ]_vars

C27_Witness ==
    /\ entry \in Engines
    /\ pc = "generating"
    /\ attempt = 3
    /\ previous_answer = PyStr(answers_history[2])
    /\ answers_history[2] # answers_history[1]
    /\ previous_queries = PyList(search_queries)
    /\ Len(search_queries) = 2

----------------------------------------------------------------------------
(* Properties of the loop's stages (specification Spec) *)

\* C28: an attempt goes through generation, search, synthesis and
\* evaluation in this order and through each at most once; the evaluation
\* call is issued only for a non-empty synthesized answer; and evaluation
\* is left only by returning the satisfactory result, by beginning the
\* generation of the next attempt, or by returning because the budget is
\* exhausted.
C28_StageOrder ==
    [][ /\ pc = "start" =>
              \/ pc' = "generating" /\ attempt' = 1
              \/ pc' = "done" /\ limit <= 0
        /\ pc = "generating" =>
              /\ pc' \in {"generating", "searching"}
              /\ attempt' = attempt
        /\ pc \in {"searching", "collecting"} =>
              /\ pc' \in {"collecting", "synthesizing"}
              /\ attempt' = attempt
        /\ pc = "synthesizing" =>
              /\ attempt' = attempt
              /\ \/ pc' = "evaluating" /\ answer'.t = "str" /\ answer'.s # << >>
                 \/ pc' = "done" /\ answer' \in {None, PyStr(<< >>)}
                                 /\ ~result'.evaluation.satisfactory
        /\ pc = "evaluating" =>
              \/ /\ pc' = "done"
                 /\ result'.evaluation.satisfactory
                 /\ result'.attempts = attempt
              \/ /\ pc' = "generating"
                 /\ ~evaluation'.satisfactory
                 /\ attempt < limit
                 /\ attempt' = attempt + 1
              \/ /\ pc' = "done"
                 /\ ~result'.evaluation.satisfactory
                 /\ attempt = limit
        \* one call of each stage per attempt
        /\ calls'.generate = attempt'
        /\ calls'.search = attempt' - (IF pc' \in {"generating", "searching"} THEN 1 ELSE 0)
        /\ calls'.synthesize =
              attempt' - (IF pc' \in {"generating", "searching", "collecting",
                                      "synthesizing"} THEN 1 ELSE 0)
        /\ calls'.evaluate <= calls'.synthesize
        /\ calls'.evaluate >= calls'.synthesize - 1
      ]_vars

C28_Witness ==
    /\ entry \in Engines
    /\ pc = "evaluating"
    /\ attempt = 2
    /\ calls.generate = 2
    /\ calls.search = 2
    /\ calls.synthesize = 2
    /\ calls.evaluate = 1
    /\ answer.s # << >>

----------------------------------------------------------------------------
(* Termination of the loop (specification SpecFair) *)

\* the completion calls one request may make: for each attempt of the
\* budget, the tries of the generation call, one synthesis call and one
\* evaluation call
CompletionCallBound ==
    Max(limit, 0) * (Max(1, settings.query_generation_attempts) + 2)

\* C29: when every collaborator call returns or fails, answer_query and
\* handle_search_flow terminate, whatever the evaluator answers, and make
\* at most max_retries * (max(1, query_generation_attempts) + 2) completion
\* calls for the query.
C29_TerminatesWithinCallBound ==
    /\ <>(pc \in {"done", "raised"})
    /\ [](calls.completion <= CompletionCallBound)

C29_Witness ==
    /\ entry \in Engines
    /\ pc = "done"
    /\ ~result.evaluation.satisfactory
    /\ limit = MaxRetries
    /\ settings.query_generation_attempts = MaxGenAttempts
    /\ result.attempts = MaxRetries
    /\ calls.evaluate = MaxRetries
    /\ calls.completion = CompletionCallBound

----------------------------------------------------------------------------
(* Termination of the legacy loop (specification SpecLegacy) *)

\* C30: the loop main() of src/search.py runs for one query stops after a
\* retry budget: it terminates also when every evaluation is unsatisfactory.
C30_LegacyLoopTerminates ==
    <>(pc \in {"done", "raised"})

----------------------------------------------------------------------------
(* The verdict of evaluate_answer and the JSON object it is read from *)

\* the value of the "satisfactory" field of the JSON object in a response of
\* the evaluation call (None when the field is missing or null)
SaysSatisfactory(r) == r.choices[1].message.content.json.satisfactory

\* C36: evaluate_answer returns satisfactory = TRUE only when the JSON object
\* of the model carries the boolean true in its "satisfactory" field; every
\* other value of the field (false, missing, null, a string such as "false",
\* a number) yields satisfactory = FALSE.
C36_OnlyBooleanTrue ==
    (entry \in EvalEntries /\ pc = "done" /\ ~EvalFailure(gen_log[1])) =>
        (result.satisfactory <=> SaysSatisfactory(gen_log[1]) = PyBool(TRUE))

----------------------------------------------------------------------------
(* The per-request retry budget of handle_search_flow *)

\* C37: when a per-request max_retries value is passed to handle_search_flow
\* it is the effective budget: the loop starts at most that many attempts and
\* the returned result reports attempts <= that value, for every value >= 0
\* (0 included).
C37_PerRequestBudget ==
    (entry = "handle_search_flow" /\ max_retries_arg # None) =>
        /\ calls.generate <= max_retries_arg.n
        /\ pc = "done" => result.attempts <= max_retries_arg.n

----------------------------------------------------------------------------
(* The answer the best-answer selector substitutes (specification SpecTop) *)

\* the selector returned a text, which process_query put in place of the
\* answer of the WorkflowResult
Substituted ==
    /\ entry = "process_query"
    /\ pc = "done"
    /\ best_log # << >>
    /\ SelectedText(best_log[1].response) # << >>

\* C33: when the best-answer selector substitutes the final response of
\* process_query, the substituted answer is one of the elements of
\* answers_history: the selector never introduces a new answer.
C33_SelectedFromHistory ==
    Substituted =>
        \E i \in 1..Len(result.answers_history) :
            reply.response = result.answers_history[i]

----------------------------------------------------------------------------
(* The completion calls of generate_search_queries (specification SpecGen) *)

\* C39: generate_search_queries makes at least 1 and at most
\* max(1, query_generation_attempts) completion calls; every call before the
\* last one met a response that failed validation, so no call follows the
\* first response that passes, and the queries of that response (its items
\* that are not blank, the first 5 of them when no count is fixed) are what
\* the function returns.
C39_CompletionCallsOfGenerate ==
    entry = "generate_search_queries" =>
        /\ gen_calls <= Max(1, settings.query_generation_attempts)
        /\ Len(gen_log) = gen_calls
        /\ calls.completion = gen_calls
        /\ \A i \in 1..(Len(gen_log) - 1) : FailedTry(gen_log[i])
        /\ pc = "done" =>
             /\ gen_calls >= 1
             /\ ~FailedTry(Last(gen_log)) =>
                   LET n == NonBlank(ListOf(Last(gen_log))) IN
                   /\ Len(queries_returned.l) =
                         IF FixedCountRequested THEN n ELSE Min(n, 5)
                   /\ \A k \in 1..Len(queries_returned.l) :
                         \E j \in 1..Len(ListOf(Last(gen_log))) :
                            queries_returned.l[k] =
                               Strip(PyStrOf(ListOf(Last(gen_log))[j]))

C39_Witness ==
    /\ GenReturned
    /\ settings.query_generation_attempts = 2
    /\ gen_calls = 1
    /\ ~FailedTry(gen_log[1])
    /\ queries_returned.l = << << "y" >>, << "x" >>, << "y" >> >>

----------------------------------------------------------------------------
(* The size of one search() call (specification SpecSearch) *)

\* C38: a single search call returns at most search_results_per_query
\* results, for every configured value >= 0 and any number of provider hits,
\* in SearchScraper.search and in AsyncSearchScraper.search, and it issues
\* content fetches for at most search_results_per_query hits.
C38_AtMostConfiguredResults ==
    (entry \in SearchEntries /\ fan_log # << >>) =>
        /\ pc = "done" => Len(result.l) <= settings.search_results_per_query
        /\ fan_log[1].fetches <= settings.search_results_per_query

----------------------------------------------------------------------------
(* The answer and the evaluation of a returned WorkflowResult              *)
(* (specification Spec)                                                    *)

\* the last attempt the loop started reached its evaluate_answer call
EvaluatedLastAttempt == calls.evaluate >= 1 /\ calls.evaluate = calls.generate

\* C34: in every returned WorkflowResult with a non-empty answer,
\* result.evaluation is the verdict produced by evaluating result.answer: the
\* answer and the evaluation belong to the same attempt.
C34_EvaluationOfTheAnswer ==
    (Returned /\ result.answer # << >>) =>
        /\ EvaluatedLastAttempt
        /\ result.answer = Last(synth_log).s
        /\ result.evaluation = last_verdict

\* C35: in every returned WorkflowResult, answer is the last element of
\* answers_history, or "" when the history is empty, and
\* evaluation.satisfactory is true if and only if the evaluator returned
\* satisfactory for the last attempt that ran.
C35_LastAnswerAndVerdict ==
    Returned =>
        /\ result.answer = IF result.answers_history # << >>
                           THEN Last(result.answers_history) ELSE << >>
        /\ result.evaluation.satisfactory <=>
              (EvaluatedLastAttempt /\ last_verdict.satisfactory)

C35_Witness ==
    /\ Returned
    /\ calls.generate = 2
    /\ calls.evaluate = 1
    /\ SynthesisFailedLast
    /\ result.answers_history = << << "a" >> >>
    /\ result.answer = << "a" >>
    /\ ~result.evaluation.satisfactory

----------------------------------------------------------------------------
(* What the search() calls of one fan-out share (specification SpecFan) *)

\* a search() call of the running fan-out stored a cookie in the session's
\* jar, and another call of the same fan-out sent or stored cookies of it
SharedSessionWrite ==
    \E i \in session.writers :
        \E j \in session.readers \cup session.writers : j # i

\* C31: within one fan-out no mutable state is shared between the concurrent
\* search calls: the merged list holds exactly the batches the collecting
\* loop has taken from completed calls, and no call writes to an object
\* that another call of the fan-out reads or writes.
C31_NoSharedMutableState ==
    entry \in FanEntries =>
        /\ pc = "collecting" => merged = Succeeded(fan_log)
        /\ ~SharedSessionWrite

----------------------------------------------------------------------------
(* Successive calls on one workflow object (specification SpecAgain) *)

\* the WorkflowResult a call returns, as a function of what happened during
\* that call alone: the values its synthesize_answer calls returned, the
\* verdict of its last evaluate_answer call, the number of its evaluations
\* and its own retry budget
OwnResult ==
    LET history == Produced(synth_log)
        last == IF history # << >> THEN Last(history) ELSE << >>
    IN  IF Satisfied
        THEN [answer |-> last, evaluation |-> last_verdict,
              attempts |-> calls.evaluate, answers_history |-> history]
        ELSE [answer |-> last,
              evaluation |->
                  IF SynthesisFailedLast
                  THEN [satisfactory |-> FALSE,
                        reason |-> << "Unable to produce an answer from the gathered search results." >>]
                  ELSE IF last_verdict = None
                  THEN [satisfactory |-> FALSE, reason |-> << >>]
                  ELSE last_verdict,
              attempts |-> Budget, answers_history |-> history]

\* C32: no state persists across independent queries: a second call of
\* answer_query (or handle_search_flow) on the same workflow object starts
\* with an empty answers_history and no previous queries or answer, its
\* history holds only the answers synthesized during that call, and the
\* result of every call is determined by its own arguments and by the
\* responses of the collaborators during that call.
C32_NoStateAcrossCalls ==
    entry \in Engines =>
        /\ (invocation = 2 /\ pc = "start") =>
              /\ answers_history = << >>
              /\ previous_queries = None
              /\ previous_answer = None
        /\ (invocation = 2 /\ calls.evaluate = 0) =>
              /\ previous_queries = None
              /\ previous_answer = None
        /\ answers_history = Produced(synth_log)
        /\ pc = "done" => result = OwnResult

C32_Witness ==
    /\ entry \in Engines
    /\ invocation = 2
    /\ pc = "done"
    /\ query = << "p" >>
    /\ calls.generate = 1
    /\ settings.max_retries = 2
    /\ result.answers_history = << << "b" >> >>
    /\ result.evaluation.satisfactory

====
